---- MODULE Spec2Model ----
(***************************************************************************)
(* CrabPot egress core: EgressPolicy (egress_policy.py), ActionGate        *)
(* (action_gate.py), the proxy request handler (egress_proxy.py) and the   *)
(* history part of AlertDispatcher.fire (alerts.py).                       *)
(*                                                                         *)
(* Strings are sequences of one-character strings, so that lower(),        *)
(* strip(), startswith/endswith and fnmatch are computed, not assumed.     *)
(* fnmatch character classes ("[...]") are outside the model's alphabet.   *)
(***************************************************************************)
EXTENDS Naturals, Sequences, FiniteSets, TLC

\* ------------------------------------------------------------------------
\* Strings
\* ------------------------------------------------------------------------

UpperLetters ==
  {"A", "B", "C", "D", "E", "F", "G", "H", "I", "J", "K", "L", "M",
   "N", "O", "P", "Q", "R", "S", "T", "U", "V", "W", "X", "Y", "Z"}

\* str.lower() on one character: the ASCII letters.
LowerChar(c) ==
  IF c \notin UpperLetters THEN c ELSE
  CASE c = "A" -> "a" [] c = "B" -> "b" [] c = "C" -> "c" [] c = "D" -> "d"
    [] c = "E" -> "e" [] c = "F" -> "f" [] c = "G" -> "g" [] c = "H" -> "h"
    [] c = "I" -> "i" [] c = "J" -> "j" [] c = "K" -> "k" [] c = "L" -> "l"
    [] c = "M" -> "m" [] c = "N" -> "n" [] c = "O" -> "o" [] c = "P" -> "p"
    [] c = "Q" -> "q" [] c = "R" -> "r" [] c = "S" -> "s" [] c = "T" -> "t"
    [] c = "U" -> "u" [] c = "V" -> "v" [] c = "W" -> "w" [] c = "X" -> "x"
    [] c = "Y" -> "y" [] c = "Z" -> "z"
    [] OTHER -> c

\* str.lower()
Lower(s) == [i \in 1..Len(s) |-> LowerChar(s[i])]

\* The characters str.strip() removes (ASCII whitespace).
Whitespace == {" ", "\t", "\n", "\r"}

RECURSIVE LStrip(_)
LStrip(s) ==
  IF s # <<>> /\ Head(s) \in Whitespace THEN LStrip(Tail(s)) ELSE s

RECURSIVE RStrip(_)
RStrip(s) ==
  IF s # <<>> /\ s[Len(s)] \in Whitespace THEN RStrip(SubSeq(s, 1, Len(s) - 1)) ELSE s

\* str.strip()
Strip(s) == RStrip(LStrip(s))

\* str.startswith / str.endswith
StartsWith(s, p) == Len(p) <= Len(s) /\ SubSeq(s, 1, Len(p)) = p

EndsWith(s, p) == Len(p) <= Len(s) /\ SubSeq(s, Len(s) - Len(p) + 1, Len(s)) = p

\* fnmatch.fnmatch on POSIX (normcase is the identity): "*" any run, "?" any
\* one character, everything else literal; the whole name must match.
RECURSIVE FnMatch(_, _)
FnMatch(name, pat) ==
  IF pat = <<>> THEN name = <<>>
  ELSE IF Head(pat) = "*"
    THEN FnMatch(name, Tail(pat)) \/ (name # <<>> /\ FnMatch(Tail(name), pat))
  ELSE IF name = <<>> THEN FALSE
  ELSE IF Head(pat) = "?" THEN FnMatch(Tail(name), Tail(pat))
  ELSE Head(pat) = Head(name) /\ FnMatch(Tail(name), Tail(pat))

\* EgressPolicy._match
_match(domain, pattern) ==
  IF pattern = domain THEN TRUE
  ELSE IF StartsWith(pattern, <<"*", ".">>)
    THEN EndsWith(domain, Tail(pattern)) \/ domain = SubSeq(pattern, 3, Len(pattern))
  ELSE FnMatch(domain, pattern)

DEFAULT_BLOCKLIST ==
  << <<"*", ".", "n", "g", "r", "o", "k", ".", "i", "o">>,
     <<"*", ".", "n", "g", "r", "o", "k", "-", "f", "r", "e", "e", ".", "a", "p", "p">>,
     <<"*", ".", "r", "e", "q", "u", "e", "s", "t", "b", "i", "n", ".", "c", "o", "m">>,
     <<"*", ".", "p", "i", "p", "e", "d", "r", "e", "a", "m", ".", "n", "e", "t">>,
     <<"w", "e", "b", "h", "o", "o", "k", ".", "s", "i", "t", "e">>,
     <<"*", ".", "b", "u", "r", "p", "c", "o", "l", "l", "a", "b", "o", "r", "a", "t", "o", "r", ".", "n", "e", "t">>,
     <<"*", ".", "o", "a", "s", "t", "i", "f", "y", ".", "c", "o", "m">>,
     <<"*", ".", "i", "n", "t", "e", "r", "a", "c", "t", ".", "s", "h">>,
     <<"*", ".", "c", "a", "n", "a", "r", "y", "t", "o", "k", "e", "n", "s", ".", "c", "o", "m">>,
     <<"p", "a", "s", "t", "e", "b", "i", "n", ".", "c", "o", "m">>,
     <<"h", "a", "s", "t", "e", "b", "i", "n", ".", "c", "o", "m">>,
     <<"*", ".", "r", "e", "q", "u", "e", "s", "t", "c", "a", "t", "c", "h", "e", "r", ".", "c", "o", "m">>,
     <<"*", ".", "h", "o", "o", "k", "b", "i", "n", ".", "c", "o", "m">> >>

SeqToSet(q) == {q[i] : i \in 1..Len(q)}

\* ------------------------------------------------------------------------
\* Policy file (line-based): EgressPolicy._load and EgressPolicy._save
\* ------------------------------------------------------------------------

SaveHeader1 == <<"#", " ", "C", "r", "a", "b", "P", "o", "t", " ", "E", "g", "r", "e", "s", "s", " ", "A", "l", "l", "o", "w", "l", "i", "s", "t">>

SaveHeader2 == <<"#", " ", "M", "a", "n", "a", "g", "e", "d", " ", "b", "y", " ", "c", "r", "a", "b", "p", "o", "t", " ", "p", "o", "l", "i", "c", "y", " ", "c", "o", "m", "m", "a", "n", "d", "s">>

\* The lines _save writes: header, blank, allowlist, blank, "!"-entries that
\* are not built in.
SaveLines(allow, block) ==
  LET NotDefault(p) == p \notin SeqToSet(DEFAULT_BLOCKLIST)
      extra == SelectSeq(block, NotDefault)
  IN  <<SaveHeader1, SaveHeader2, <<>>>> \o allow \o << <<>> >>
        \o [i \in 1..Len(extra) |-> <<"!">> \o extra[i]]

\* _load: one pass over the lines, appending to the two lists.
RECURSIVE LoadLines(_, _, _)
LoadLines(lines, allow, block) ==
  IF lines = <<>> THEN [allowed |-> allow, blocked |-> block]
  ELSE LET line == Strip(Head(lines))
       IN  IF line = <<>> \/ StartsWith(line, <<"#">>)
             THEN LoadLines(Tail(lines), allow, block)
           ELSE IF StartsWith(line, <<"!">>)
             THEN LoadLines(Tail(lines), allow, Append(block, Strip(Tail(line))))
           ELSE LoadLines(Tail(lines), Append(allow, line), block)

\* ------------------------------------------------------------------------
\* Inputs and bounds
\* ------------------------------------------------------------------------

D_a == <<"a", ".", "i", "o">>

D_A == <<"A", ".", "i", "o">>

D_x == <<"x", ".", "n", "g", "r", "o", "k", ".", "i", "o">>

D_b == <<"b", ".", "i", "o">>

P_io == <<"*", ".", "i", "o">>

\* The policy file on disk when the engine is constructed.
InitialPolicyFile ==
  << <<"#", " ", "t", "e", "s", "t">>, <<>>, <<"!", "B", ".", "I", "O", " ">> >>

\* Hosts that proxy clients ask for.
Hosts == {D_A, D_x}

\* Domains the operator decides on through the gate (dashboard approve/deny).
DecideDomains == {D_A}

\* Domains of direct request_approval callers.
GateDomains == {D_A}

\* Arguments of the EgressPolicy calls made directly (session_approve,
\* session_deny, add_permanent, remove_permanent, check_domain).
PolicyDomains == {D_A, D_x, D_b}

\* Arguments of add_permanent / remove_permanent and of approve(d, permanent=True).
PermanentDomains == {D_A, D_x}

\* Patterns given to add_permanent / remove_permanent besides PermanentDomains.
PolicyPatterns == {P_io}

Methods == {"CONNECT", "GET"}

\* Threads that call ActionGate.request_approval directly.
NumCallers == 2

\* Proxy handler threads; the threading server runs one per accepted
\* connection and each serves one request.
NumProxyThreads == 1

\* Threads blocked in request_approval while the operator approves
\* permanently or for the session.
NumWaiters == 1

GateCallers == 1..NumCallers

ProxyThreads == (NumCallers + 1)..(NumCallers + NumProxyThreads)

ApproveWaiters == 1..NumWaiters

\* Proxy handler threads of the audit-trail specifications (no gate attached).
NumAuditThreads == 2

AuditThreads == 1..NumAuditThreads

\* Threads calling AlertDispatcher.fire concurrently.
NumAlertThreads == 2

AlertThreads == 1..NumAlertThreads

Handlers == GateCallers \cup ProxyThreads \cup ApproveWaiters \cup AuditThreads

Operators == {"o1"}

NoThread == 0

None == "None"

NoReq == 0

ALLOW == "allow"

DENY == "deny"

PENDING == "pending"

\* ------------------------------------------------------------------------
\* State
\* ------------------------------------------------------------------------

VARIABLES
  allowed,           \* EgressPolicy._allowed: list of patterns
  session_approved,  \* EgressPolicy._session_approved
  session_denied,    \* EgressPolicy._session_denied
  audit_log,         \* EgressPolicy._audit_log
  unknown_action,    \* EgressPolicy.unknown_action
  policy_file,       \* lines of the file at _policy_path
  pending,           \* ActionGate._pending: domain -> PendingRequest (index into requests)
  requests,          \* the PendingRequest objects created so far
  gate_history,      \* ActionGate._history
  gate_lock,         \* holder of ActionGate._lock
  gate_attached,     \* _ProxyHandler.gate is not None
  alert_history,     \* AlertDispatcher._history
  proxy,             \* per handler thread: position and locals
  human,             \* per operator thread: position and locals
  alert_file,        \* lines of AlertDispatcher.log_file (alerts.log)
  clock,             \* datetime.now()
  socketio,          \* AlertDispatcher.socketio is not None
  firing,            \* per thread inside AlertDispatcher.fire: position and locals
  scanner,           \* a call of EgressPolicy.scan_for_secrets: content and findings
  monitor            \* SecurityMonitor: _stop_event, _paused, _threads

vars == <<allowed, session_approved, session_denied, audit_log,
          unknown_action, policy_file, pending, requests, gate_history,
          gate_lock, gate_attached, alert_history, proxy, human,
          alert_file, clock, socketio, firing, scanner, monitor>>

\* The state of the alert dispatcher (besides its history), the scanner and
\* the monitor, which the policy, the gate and the proxy handlers leave alone.
outside_egress == <<alert_file, clock, socketio, firing, scanner, monitor>>

\* EgressPolicy._blocked: the built-in list followed by the "!" lines of the
\* file read at construction; no method changes it afterwards.
blocked == LoadLines(InitialPolicyFile, <<>>, DEFAULT_BLOCKLIST).blocked

\* ------------------------------------------------------------------------
\* EgressPolicy
\* ------------------------------------------------------------------------

\* "for pattern in patterns: if self._match(domain, pattern.lower()): return":
\* the loop returns at the first pattern that matches, if there is one.
LoopMatches(domain, patterns) ==
  \E i \in 1..Len(patterns) : _match(domain, Lower(patterns[i]))

\* check_domain with the allowlist consulted before the session denials.
check_domain_allow_first(d) ==
  LET domain == Strip(Lower(d))
  IN  IF LoopMatches(domain, blocked) THEN DENY
      ELSE IF LoopMatches(domain, allowed) THEN ALLOW
      ELSE IF domain \in session_denied THEN DENY
      ELSE IF domain \in session_approved THEN ALLOW
      ELSE IF unknown_action = "deny" THEN DENY
      ELSE PENDING

\* check_domain with the blocklist consulted after the allow rules.
check_domain_block_last(d) ==
  LET domain == Strip(Lower(d))
  IN  IF domain \in session_denied THEN DENY
      ELSE IF LoopMatches(domain, allowed) THEN ALLOW
      ELSE IF domain \in session_approved THEN ALLOW
      ELSE IF LoopMatches(domain, blocked) THEN DENY
      ELSE IF unknown_action = "deny" THEN DENY
      ELSE PENDING

check_domain(d) ==
  LET domain == Strip(Lower(d))
  IN  IF LoopMatches(domain, blocked) THEN DENY
      ELSE IF domain \in session_denied THEN DENY
      ELSE IF LoopMatches(domain, allowed) THEN ALLOW
      ELSE IF domain \in session_approved THEN ALLOW
      ELSE IF unknown_action = "deny" THEN DENY
      ELSE PENDING

\* session_approve without the discard from the session denials.
session_approve_add_only(d) ==
  /\ session_approved' = session_approved \cup {Lower(d)}
  /\ session_denied' = session_denied

session_approve(d) ==
  /\ session_approved' = session_approved \cup {Lower(d)}
  /\ session_denied' = session_denied \ {Lower(d)}

\* session_deny storing the domain as given, without lower().
session_deny_as_given(d) ==
  /\ session_denied' = session_denied \cup {d}
  /\ session_approved' = session_approved \ {d}

session_deny(d) ==
  /\ session_denied' = session_denied \cup {Lower(d)}
  /\ session_approved' = session_approved \ {Lower(d)}

\* add_permanent up to the release of the lock; _save follows as its own steps.
add_permanent(d) ==
  LET domain == Strip(Lower(d))
  IN  allowed' = IF domain \in SeqToSet(allowed) THEN allowed ELSE Append(allowed, domain)

\* remove_permanent up to the release of the lock; _save follows.
remove_permanent(d) ==
  LET domain == Strip(Lower(d))
      Other(x) == x # domain
  IN  allowed' = SelectSeq(allowed, Other)

AuditCap == 5000

AuditKeep == 2500

\* log_attempt trimming to the oldest entries instead of the most recent.
log_attempt_keeps_oldest(d, port, method, decision) ==
  LET entry == [domain |-> d, port |-> port, method |-> method, decision |-> decision]
      log == Append(audit_log, entry)
  IN  audit_log' = IF Len(log) > AuditCap THEN SubSeq(log, 1, AuditKeep) ELSE log

log_attempt(d, port, method, decision) ==
  LET entry == [domain |-> d, port |-> port, method |-> method, decision |-> decision]
      log == Append(audit_log, entry)
  IN  audit_log' = IF Len(log) > AuditCap
                     THEN SubSeq(log, Len(log) - AuditKeep + 1, Len(log))
                     ELSE log

\* ------------------------------------------------------------------------
\* AlertDispatcher.fire: the in-memory history
\* ------------------------------------------------------------------------

AlertCap == 1000

AlertKeep == 500

fire(severity, source, message) ==
  LET alert == [severity |-> severity, source |-> source, message |-> message]
      hist == Append(alert_history, alert)
  IN  alert_history' = IF Len(hist) > AlertCap
                         THEN SubSeq(hist, Len(hist) - AlertKeep + 1, Len(hist))
                         ELSE hist

\* ------------------------------------------------------------------------
\* Initial state: EgressPolicy.__init__, ActionGate.__init__, EgressProxy
\* ------------------------------------------------------------------------

IdleHandler ==
  [pc |-> "idle", host |-> <<>>, port |-> 0, method |-> None, decision |-> None,
   req |-> NoReq, timed_out |-> FALSE, approved |-> FALSE, final |-> None,
   upstream |-> FALSE, status |-> 0]

IdleOperator ==
  [pc |-> "idle", op |-> None, domain |-> <<>>, permanent |-> FALSE,
   lines |-> <<>>, result |-> None]

\* EgressPolicy.__init__, ActionGate.__init__, EgressProxy: everything but the
\* two logs.
InitPolicyAndGate ==
  LET loaded == LoadLines(InitialPolicyFile, <<>>, DEFAULT_BLOCKLIST)
  IN  /\ allowed = loaded.allowed
      /\ session_approved = {}
      /\ session_denied = {}
      /\ unknown_action \in {"pending", "deny"}
      /\ policy_file = InitialPolicyFile
      /\ pending = <<>>
      /\ requests = <<>>
      /\ gate_history = <<>>
      /\ gate_lock = NoThread
      /\ gate_attached \in BOOLEAN
      /\ proxy = [h \in Handlers |-> IdleHandler]
      /\ human = [o \in Operators |-> IdleOperator]

\* A thread that is not inside AlertDispatcher.fire.
IdleFire ==
  [pc |-> "idle", alert |-> None, attempted |-> {}, error |-> None, toast |-> None]

\* No scan_for_secrets call yet.
IdleScanner == [pc |-> "idle", content |-> <<>>, findings |-> <<>>]

\* SecurityProfile(): the flags that select watcher channels.
DefaultProfile ==
  [resource_limits |-> TRUE, process_watchdog |-> FALSE, network_auditor |-> FALSE,
   log_scanner |-> TRUE, auto_pause_on_critical |-> TRUE]

\* SecurityMonitor.__init__; spawned are the watcher threads created so far,
\* threads the positions of those that _threads holds, stopping says that a
\* call of stop is joining them.
\* cpu_high_since is <<>> for None and <<t>> for the time t. now is what
\* time.time() returns, in seconds, 100 when the monitor is constructed. dm
\* is the container as DockerManager reaches it: its status, the calls of
\* DockerManager.pause made so far and those of them that returned, the
\* commands for which pause was called
\* and which every list of get_top since has held, and for the last call of
\* pause the status it found and whether its command was one of those.
\* cpu_log and health_log record what the watchers saw: the time of
\* the last sample at or below the CPU threshold, the time of the last CPU
\* warning fired, the time of the first sample above the memory threshold
\* and of the last memory warning fired, the remotes that `ss` has
\* reported and the ones it has reported in two polls or more, and the last
\* two values get_health returned.
IdleMonitor ==
  [profile |-> DefaultProfile, stop_event |-> FALSE, paused |-> FALSE,
   threads |-> <<>>, spawned |-> <<>>, starts |-> 0, stopping |-> FALSE,
   cpu_threshold |-> 80, memory_threshold |-> 85, cpu_sustain_seconds |-> 30,
   cpu_high_since |-> <<>>, last_memory_alert |-> 0, consecutive_unhealthy |-> 0,
   now |-> 100,
   dm |-> [status |-> "running", pause_calls |-> 0, pause_returned |-> 0,
           paused_for |-> {},
           last_pause |-> <<>>],
   cpu_log |-> [low_at |-> <<>>, fired_at |-> <<>>, gap |-> <<>>],
   memory_log |-> [over_at |-> <<>>, fired_at |-> <<>>, gap |-> <<>>],
   network_log |-> [reported |-> {}, again |-> {}],
   health_log |-> <<>>]

\* AlertDispatcher.__init__ without an alerts.log and without socketio, no
\* scan and a monitor that was not started.
InitOutside ==
  /\ alert_file = <<>>
  /\ clock = 0
  /\ socketio = FALSE
  /\ firing = [t \in AlertThreads |-> IdleFire]
  /\ scanner = IdleScanner
  /\ monitor = IdleMonitor

Init ==
  /\ InitPolicyAndGate
  /\ audit_log = <<>>
  /\ alert_history = <<>>
  /\ InitOutside

\* ------------------------------------------------------------------------
\* Proxy handler thread: do_CONNECT / _handle_http / _enforce
\* ------------------------------------------------------------------------

\* A client request arrives and its target is parsed.
Accept(h, host, method) ==
  /\ proxy[h].pc = "idle"
  /\ proxy' = [proxy EXCEPT ![h] = [IdleHandler EXCEPT
                  !.pc = "check", !.host = host, !.method = method,
                  !.port = IF method = "CONNECT" THEN 443 ELSE 80]]
  /\ UNCHANGED <<outside_egress, allowed, session_approved, session_denied, audit_log,
                 unknown_action, policy_file, pending, requests, gate_history,
                 gate_lock, gate_attached, alert_history, human>>

\* _enforce: decision = self.policy.check_domain(host)
EnforceCheck(h) ==
  /\ proxy[h].pc = "check"
  /\ proxy' = [proxy EXCEPT ![h].decision = check_domain(proxy[h].host),
                            ![h].pc = "log"]
  /\ UNCHANGED <<outside_egress, allowed, session_approved, session_denied, audit_log,
                 unknown_action, policy_file, pending, requests, gate_history,
                 gate_lock, gate_attached, alert_history, human>>

\* _enforce: self.policy.log_attempt(host, port, method, decision.value),
\* then either enter the gate or return the decision.
EnforceLog(h) ==
  LET r == proxy[h]
  IN  /\ r.pc = "log"
      /\ log_attempt(r.host, r.port, r.method, r.decision)
      /\ proxy' = IF r.decision = PENDING /\ gate_attached
                    THEN [proxy EXCEPT ![h].pc = "ra_enter"]
                    ELSE [proxy EXCEPT ![h].pc = "respond", ![h].final = r.decision]
      /\ UNCHANGED <<outside_egress, allowed, session_approved, session_denied,
                     unknown_action, policy_file, pending, requests, gate_history,
                     gate_lock, gate_attached, alert_history, human>>

\* A thread calls gate.request_approval(d, port) itself (not through the proxy).
RequestApprovalCall(h, d, port) ==
  /\ proxy[h].pc = "idle"
  /\ proxy' = [proxy EXCEPT ![h] = [IdleHandler EXCEPT
                  !.pc = "ra_enter", !.host = d, !.port = port]]
  /\ UNCHANGED <<outside_egress, allowed, session_approved, session_denied, audit_log,
                 unknown_action, policy_file, pending, requests, gate_history,
                 gate_lock, gate_attached, alert_history, human>>

\* The first locked block with _notify_pending called for a reused request
\* as well.
RequestApprovalEnter_notifies_reuse(h) ==
  LET r == proxy[h]
      domain == Lower(r.host)
  IN  /\ r.pc = "ra_enter"
      /\ gate_lock = NoThread
      /\ IF domain \in DOMAIN pending
           THEN /\ proxy' = [proxy EXCEPT ![h].req = pending[domain], ![h].pc = "ra_notify"]
                /\ gate_lock' = h
                /\ UNCHANGED <<pending, requests>>
           ELSE /\ requests' = Append(requests, [domain |-> domain, port |-> r.port,
                                                 approved |-> None, event |-> FALSE])
                /\ pending' = [d \in DOMAIN pending \cup {domain} |->
                                 IF d = domain THEN Len(requests) + 1 ELSE pending[d]]
                /\ gate_lock' = h
                /\ proxy' = [proxy EXCEPT ![h].req = Len(requests) + 1,
                                          ![h].pc = "ra_notify"]
      /\ UNCHANGED <<outside_egress, allowed, session_approved, session_denied, audit_log,
                     unknown_action, policy_file, gate_history, gate_attached,
                     alert_history, human>>

\* request_approval, first locked block up to the call of _notify_pending:
\* reuse the pending request of the domain or create one.
RequestApprovalEnter(h) ==
  LET r == proxy[h]
      domain == Lower(r.host)
  IN  /\ r.pc = "ra_enter"
      /\ gate_lock = NoThread
      /\ IF domain \in DOMAIN pending
           THEN /\ proxy' = [proxy EXCEPT ![h].req = pending[domain], ![h].pc = "wait"]
                /\ UNCHANGED <<pending, requests, gate_lock>>
           ELSE /\ requests' = Append(requests, [domain |-> domain, port |-> r.port,
                                                 approved |-> None, event |-> FALSE])
                /\ pending' = [d \in DOMAIN pending \cup {domain} |->
                                 IF d = domain THEN Len(requests) + 1 ELSE pending[d]]
                /\ gate_lock' = h
                /\ proxy' = [proxy EXCEPT ![h].req = Len(requests) + 1,
                                          ![h].pc = "ra_notify"]
      /\ UNCHANGED <<outside_egress, allowed, session_approved, session_denied, audit_log,
                     unknown_action, policy_file, gate_history, gate_attached,
                     alert_history, human>>

\* _notify_pending(req), called inside the locked block, then the lock is released.
RequestApprovalNotify(h) ==
  LET r == proxy[h]
  IN  /\ r.pc = "ra_notify"
      /\ fire("WARNING", "egress", [text |-> "Approval needed",
                                    domain |-> requests[r.req].domain,
                                    port |-> requests[r.req].port])
      /\ gate_lock' = NoThread
      /\ proxy' = [proxy EXCEPT ![h].pc = "wait"]
      /\ UNCHANGED <<outside_egress, allowed, session_approved, session_denied, audit_log,
                     unknown_action, policy_file, pending, requests, gate_history,
                     gate_attached, human>>

\* PendingRequest.wait: self.event.wait(timeout) returns, because the event is
\* set or because the timeout elapsed.
WaitReturns(h) ==
  LET r == proxy[h]
  IN  /\ r.pc = "wait"
      /\ proxy' = [proxy EXCEPT ![h].timed_out = ~requests[r.req].event,
                                ![h].pc = "read"]
      /\ UNCHANGED <<outside_egress, allowed, session_approved, session_denied, audit_log,
                     unknown_action, policy_file, pending, requests, gate_history,
                     gate_lock, gate_attached, alert_history, human>>

\* PendingRequest.wait: return self.approved is True
WaitVerdict(h) ==
  LET r == proxy[h]
  IN  /\ r.pc = "read"
      /\ proxy' = [proxy EXCEPT ![h].approved = (requests[r.req].approved = "True"),
                                ![h].pc = "ra_pop"]
      /\ UNCHANGED <<outside_egress, allowed, session_approved, session_denied, audit_log,
                     unknown_action, policy_file, pending, requests, gate_history,
                     gate_lock, gate_attached, alert_history, human>>

\* The second locked block with a call that returns False recorded in the
\* policy as a session denial.
RequestApprovalPop_denies(h) ==
  LET r == proxy[h]
      domain == Lower(r.host)
  IN  /\ r.pc = "ra_pop"
      /\ gate_lock = NoThread
      /\ pending' = [d \in DOMAIN pending \ {domain} |-> pending[d]]
      /\ gate_history' = Append(gate_history,
                                [domain |-> domain, port |-> r.port,
                                 decision |-> IF r.approved THEN "approved" ELSE "denied"])
      /\ IF r.approved
           THEN UNCHANGED <<session_approved, session_denied>>
           ELSE session_deny(domain)
      /\ proxy' = [proxy EXCEPT ![h].pc = "ra_log"]
      /\ UNCHANGED <<outside_egress, allowed, audit_log,
                     unknown_action, policy_file, requests, gate_lock, gate_attached,
                     alert_history, human>>

\* request_approval, second locked block: pop the domain, append to history.
RequestApprovalPop(h) ==
  LET r == proxy[h]
      domain == Lower(r.host)
  IN  /\ r.pc = "ra_pop"
      /\ gate_lock = NoThread
      /\ pending' = [d \in DOMAIN pending \ {domain} |-> pending[d]]
      /\ gate_history' = Append(gate_history,
                                [domain |-> domain, port |-> r.port,
                                 decision |-> IF r.approved THEN "approved" ELSE "denied"])
      /\ proxy' = [proxy EXCEPT ![h].pc = "ra_log"]
      /\ UNCHANGED <<outside_egress, allowed, session_approved, session_denied, audit_log,
                     unknown_action, policy_file, requests, gate_lock, gate_attached,
                     alert_history, human>>

\* request_approval: _log_decision(domain, ...), then return approved.
RequestApprovalLogDecision(h) ==
  LET r == proxy[h]
  IN  /\ r.pc = "ra_log"
      /\ fire(IF r.approved THEN "INFO" ELSE "WARNING", "egress",
              [text |-> IF r.approved THEN "Egress APPROVED"
                                      ELSE "Egress DENIED (timeout or explicit)",
               domain |-> Lower(r.host), port |-> 0])
      /\ proxy' = [proxy EXCEPT ![h].pc = IF r.method = None THEN "done" ELSE "log_review"]
      /\ UNCHANGED <<outside_egress, allowed, session_approved, session_denied, audit_log,
                     unknown_action, policy_file, pending, requests, gate_history,
                     gate_lock, gate_attached, human>>

\* _enforce after the gate returning the verdict without the second audit entry.
EnforceLogReview_unlogged(h) ==
  LET r == proxy[h]
      final == IF r.approved THEN ALLOW ELSE DENY
  IN  /\ r.pc = "log_review"
      /\ proxy' = [proxy EXCEPT ![h].final = final, ![h].pc = "respond"]
      /\ UNCHANGED <<outside_egress, allowed, session_approved, session_denied, audit_log,
                     unknown_action, policy_file, pending, requests, gate_history,
                     gate_lock, gate_attached, alert_history, human>>

\* _enforce after the gate: the second audit entry, then return final.
EnforceLogReview(h) ==
  LET r == proxy[h]
      final == IF r.approved THEN ALLOW ELSE DENY
  IN  /\ r.pc = "log_review"
      /\ log_attempt(r.host, r.port, r.method,
                     IF final = ALLOW THEN "allow_after_review" ELSE "deny_after_review")
      /\ proxy' = [proxy EXCEPT ![h].final = final, ![h].pc = "respond"]
      /\ UNCHANGED <<outside_egress, allowed, session_approved, session_denied,
                     unknown_action, policy_file, pending, requests, gate_history,
                     gate_lock, gate_attached, alert_history, human>>

\* do_CONNECT / _handle_http: "if decision != Decision.ALLOW: send_error(403)"
RespondBlocked(h) ==
  /\ proxy[h].pc = "respond"
  /\ proxy[h].final # ALLOW
  /\ proxy' = [proxy EXCEPT ![h].status = 403, ![h].pc = "done"]
  /\ UNCHANGED <<outside_egress, allowed, session_approved, session_denied, audit_log,
                 unknown_action, policy_file, pending, requests, gate_history,
                 gate_lock, gate_attached, alert_history, human>>

\* do_CONNECT dialling the upstream without looking at the decision.
ConnectUpstream_unguarded(h, reachable) ==
  /\ proxy[h].pc = "respond"
  /\ proxy[h].method = "CONNECT"
  /\ proxy' = [proxy EXCEPT ![h].upstream = TRUE,
                            ![h].status = IF reachable THEN 200 ELSE 502,
                            ![h].pc = "done"]
  /\ UNCHANGED <<outside_egress, allowed, session_approved, session_denied, audit_log,
                 unknown_action, policy_file, pending, requests, gate_history,
                 gate_lock, gate_attached, alert_history, human>>

\* do_CONNECT: socket.create_connection((host, port)); 502 when it fails,
\* otherwise 200 and the tunnel.
ConnectUpstream(h, reachable) ==
  /\ proxy[h].pc = "respond"
  /\ proxy[h].final = ALLOW
  /\ proxy[h].method = "CONNECT"
  /\ proxy' = [proxy EXCEPT ![h].upstream = TRUE,
                            ![h].status = IF reachable THEN 200 ELSE 502,
                            ![h].pc = "done"]
  /\ UNCHANGED <<outside_egress, allowed, session_approved, session_denied, audit_log,
                 unknown_action, policy_file, pending, requests, gate_history,
                 gate_lock, gate_attached, alert_history, human>>

\* _handle_http: read the body and scan URL + body; secrets_found is the
\* truth value of the finding list.
HttpScan(h, secrets_found) ==
  /\ proxy[h].pc = "respond"
  /\ proxy[h].final = ALLOW
  /\ proxy[h].method # "CONNECT"
  /\ proxy' = [proxy EXCEPT ![h].pc = IF secrets_found THEN "secrets_log" ELSE "forward"]
  /\ UNCHANGED <<outside_egress, allowed, session_approved, session_denied, audit_log,
                 unknown_action, policy_file, pending, requests, gate_history,
                 gate_lock, gate_attached, alert_history, human>>

\* _handle_http: self.policy.log_attempt(host, port, self.command, "blocked_secrets")
HttpSecretsLog(h) ==
  LET r == proxy[h]
  IN  /\ r.pc = "secrets_log"
      /\ log_attempt(r.host, r.port, r.method, "blocked_secrets")
      /\ proxy' = [proxy EXCEPT ![h].pc = "secrets_alert"]
      /\ UNCHANGED <<outside_egress, allowed, session_approved, session_denied,
                     unknown_action, policy_file, pending, requests, gate_history,
                     gate_lock, gate_attached, alert_history, human>>

\* _handle_http: the CRITICAL alert (when a gate with alerts is attached) and 403.
HttpSecretsAlert(h) ==
  LET r == proxy[h]
  IN  /\ r.pc = "secrets_alert"
      /\ IF gate_attached
           THEN fire("CRITICAL", "egress",
                     [text |-> "Blocked: secret pattern detected", domain |-> r.host,
                      port |-> 0])
           ELSE UNCHANGED alert_history
      /\ proxy' = [proxy EXCEPT ![h].status = 403, ![h].pc = "done"]
      /\ UNCHANGED <<outside_egress, allowed, session_approved, session_denied, audit_log,
                     unknown_action, policy_file, pending, requests, gate_history,
                     gate_lock, gate_attached, human>>

\* _handle_http: urllib.request.urlopen(req); the upstream status, or 502.
HttpForward(h, reachable) ==
  /\ proxy[h].pc = "forward"
  /\ proxy' = [proxy EXCEPT ![h].upstream = TRUE,
                            ![h].status = IF reachable THEN 200 ELSE 502,
                            ![h].pc = "done"]
  /\ UNCHANGED <<outside_egress, allowed, session_approved, session_denied, audit_log,
                 unknown_action, policy_file, pending, requests, gate_history,
                 gate_lock, gate_attached, alert_history, human>>

\* ------------------------------------------------------------------------
\* Operator thread: ActionGate.approve / deny and the EgressPolicy calls
\* ------------------------------------------------------------------------

\* ActionGate.approve going to the signal without the policy call.
GateApprove_signal_only(o, d, permanent) ==
  /\ human[o].pc = "idle"
  /\ human' = [human EXCEPT ![o] = [IdleOperator EXCEPT
                  !.op = "approve", !.domain = Lower(d), !.permanent = permanent,
                  !.pc = "signal"]]
  /\ UNCHANGED <<outside_egress, allowed, session_approved, session_denied, audit_log,
                 unknown_action, policy_file, pending, requests, gate_history,
                 gate_lock, gate_attached, alert_history, proxy>>

\* ActionGate.approve up to the return of the policy call's locked block.
GateApprove(o, d, permanent) ==
  LET domain == Lower(d)
  IN  /\ human[o].pc = "idle"
      /\ IF permanent
           THEN add_permanent(domain) /\ UNCHANGED <<session_approved, session_denied>>
           ELSE session_approve(domain) /\ UNCHANGED allowed
      /\ human' = [human EXCEPT ![o] = [IdleOperator EXCEPT
                      !.op = "approve", !.domain = domain, !.permanent = permanent,
                      !.pc = IF permanent THEN "save" ELSE "signal"]]
      /\ UNCHANGED <<outside_egress, audit_log, unknown_action, policy_file, pending,
                     requests, gate_history, gate_lock, gate_attached, alert_history,
                     proxy>>

\* ActionGate.approve, locked block: signal the live request, if any.
GateApproveSignal(o) ==
  LET domain == human[o].domain
      live == domain \in DOMAIN pending
  IN  /\ human[o].pc = "signal"
      /\ human[o].op = "approve"
      /\ gate_lock = NoThread
      /\ requests' = IF live
                       THEN [requests EXCEPT ![pending[domain]].approved = "True",
                                             ![pending[domain]].event = TRUE]
                       ELSE requests
      /\ human' = [human EXCEPT ![o].result = IF live THEN "True" ELSE "False",
                                ![o].pc = "idle"]
      /\ UNCHANGED <<outside_egress, allowed, session_approved, session_denied, audit_log,
                     unknown_action, policy_file, pending, gate_history, gate_lock,
                     gate_attached, alert_history, proxy>>

\* ActionGate.deny up to the return of policy.session_deny.
GateDeny(o, d) ==
  LET domain == Lower(d)
  IN  /\ human[o].pc = "idle"
      /\ session_deny(domain)
      /\ human' = [human EXCEPT ![o] = [IdleOperator EXCEPT
                      !.op = "deny", !.domain = domain, !.pc = "signal"]]
      /\ UNCHANGED <<outside_egress, allowed, audit_log, unknown_action, policy_file, pending,
                     requests, gate_history, gate_lock, gate_attached, alert_history,
                     proxy>>

\* ActionGate.deny, locked block.
GateDenySignal(o) ==
  LET domain == human[o].domain
      live == domain \in DOMAIN pending
  IN  /\ human[o].pc = "signal"
      /\ human[o].op = "deny"
      /\ gate_lock = NoThread
      /\ requests' = IF live
                       THEN [requests EXCEPT ![pending[domain]].approved = "False",
                                             ![pending[domain]].event = TRUE]
                       ELSE requests
      /\ human' = [human EXCEPT ![o].result = IF live THEN "True" ELSE "False",
                                ![o].pc = "idle"]
      /\ UNCHANGED <<outside_egress, allowed, session_approved, session_denied, audit_log,
                     unknown_action, policy_file, pending, gate_history, gate_lock,
                     gate_attached, alert_history, proxy>>

\* EgressPolicy.session_approve called directly.
SessionApprove(o, d) ==
  /\ human[o].pc = "idle"
  /\ session_approve(d)
  /\ human' = [human EXCEPT ![o] = [IdleOperator EXCEPT
                  !.op = "session_approve", !.domain = d]]
  /\ UNCHANGED <<outside_egress, allowed, audit_log, unknown_action, policy_file, pending,
                 requests, gate_history, gate_lock, gate_attached, alert_history,
                 proxy>>

\* EgressPolicy.session_deny called directly.
SessionDeny(o, d) ==
  /\ human[o].pc = "idle"
  /\ session_deny(d)
  /\ human' = [human EXCEPT ![o] = [IdleOperator EXCEPT
                  !.op = "session_deny", !.domain = d]]
  /\ UNCHANGED <<outside_egress, allowed, audit_log, unknown_action, policy_file, pending,
                 requests, gate_history, gate_lock, gate_attached, alert_history,
                 proxy>>

\* EgressPolicy.add_permanent called directly, up to the release of the lock.
AddPermanent(o, d) ==
  /\ human[o].pc = "idle"
  /\ add_permanent(d)
  /\ human' = [human EXCEPT ![o] = [IdleOperator EXCEPT
                  !.op = "add_permanent", !.domain = d, !.pc = "save"]]
  /\ UNCHANGED <<outside_egress, session_approved, session_denied, audit_log, unknown_action,
                 policy_file, pending, requests, gate_history, gate_lock,
                 gate_attached, alert_history, proxy>>

\* EgressPolicy.remove_permanent called directly, up to the release of the lock.
RemovePermanent(o, d) ==
  /\ human[o].pc = "idle"
  /\ remove_permanent(d)
  /\ human' = [human EXCEPT ![o] = [IdleOperator EXCEPT
                  !.op = "remove_permanent", !.domain = d, !.pc = "save"]]
  /\ UNCHANGED <<outside_egress, session_approved, session_denied, audit_log, unknown_action,
                 policy_file, pending, requests, gate_history, gate_lock,
                 gate_attached, alert_history, proxy>>

\* EgressPolicy.check_domain called directly; the decision is the result.
CheckDomain(o, d) ==
  /\ human[o].pc = "idle"
  /\ human' = [human EXCEPT ![o] = [IdleOperator EXCEPT
                  !.op = "check_domain", !.domain = d, !.result = check_domain(d)]]
  /\ UNCHANGED <<outside_egress, allowed, session_approved, session_denied, audit_log, unknown_action,
                 policy_file, pending, requests, gate_history, gate_lock,
                 gate_attached, alert_history, proxy>>

\* _save, locked block: build the lines from the current lists.
SaveSnapshot(o) ==
  /\ human[o].pc = "save"
  /\ human' = [human EXCEPT ![o].lines = SaveLines(allowed, blocked), ![o].pc = "write"]
  /\ UNCHANGED <<outside_egress, allowed, session_approved, session_denied, audit_log,
                 unknown_action, policy_file, pending, requests, gate_history,
                 gate_lock, gate_attached, alert_history, proxy>>

\* _save: self._policy_path.write_text(...), outside the lock.
SaveWrite(o) ==
  /\ human[o].pc = "write"
  /\ policy_file' = human[o].lines
  /\ human' = [human EXCEPT ![o].lines = <<>>,
                            ![o].pc = IF human[o].op = "approve" THEN "signal" ELSE "idle"]
  /\ UNCHANGED <<outside_egress, allowed, session_approved, session_denied, audit_log,
                 unknown_action, pending, requests, gate_history, gate_lock,
                 gate_attached, alert_history, proxy>>

\* ------------------------------------------------------------------------
\* AlertDispatcher: fire with its four sinks, _load_history, the sanitiser
\* ------------------------------------------------------------------------

LowerLetters ==
  {"a", "b", "c", "d", "e", "f", "g", "h", "i", "j", "k", "l", "m",
   "n", "o", "p", "q", "r", "s", "t", "u", "v", "w", "x", "y", "z"}

Digits == {"0", "1", "2", "3", "4", "5", "6", "7", "8", "9"}

\* The characters the pattern [^a-zA-Z0-9 .,!?:/()\-] does not remove.
ToastAllowed ==
  LowerLetters \cup UpperLetters \cup Digits
    \cup {" ", ".", ",", "!", "?", ":", "/", "(", ")", "-"}

ToastMaxLen == 200

\* A sanitiser that removes the quote and the dollar sign only.
_sanitize_for_toast_quotes_only(s) ==
  LET sanitized == SelectSeq(s, LAMBDA c : c \notin {"'", "$"})
  IN  SubSeq(sanitized, 1, IF Len(sanitized) < ToastMaxLen THEN Len(sanitized) ELSE ToastMaxLen)

\* re.sub(r"[^a-zA-Z0-9 .,!?:/()\-]", "", s)[:200]
_sanitize_for_toast(s) ==
  LET sanitized == SelectSeq(s, LAMBDA c : c \in ToastAllowed)
  IN  SubSeq(sanitized, 1, IF Len(sanitized) < ToastMaxLen THEN Len(sanitized) ELSE ToastMaxLen)

\* f"CrabPot CRITICAL: {source}"
ToastTitle(source) == <<"C", "r", "a", "b", "P", "o", "t", " ", "C", "R", "I", "T", "I", "C", "A", "L", ":", " ">> \o source

\* The in-memory history under self._lock: append, then keep the last 500
\* when there are more than 1000.
fire_locked(alert) ==
  LET hist == Append(alert_history, alert)
  IN  alert_history' = IF Len(hist) > AlertCap
                         THEN SubSeq(hist, Len(hist) - AlertKeep + 1, Len(hist))
                         ELSE hist

\* _load_history: the alerts of the lines that parse as JSON, in file order;
\* trimmed when the whole file was read; left as read so far when the reading
\* raised OSError (read_fails) after fail_at lines.
_load_history(lines, read_fails, fail_at) ==
  LET read == IF read_fails THEN SubSeq(lines, 1, fail_at) ELSE lines
      json == SelectSeq(read, LAMBDA l : l.kind = "json")
      hist == [i \in 1..Len(json) |-> json[i].value]
  IN  IF ~read_fails /\ Len(hist) > AlertCap
        THEN SubSeq(hist, Len(hist) - AlertKeep + 1, Len(hist))
        ELSE hist

\* fire, lines 32-38: the alert is built, with the current time.
FireCall(t, severity, source, message) ==
  /\ firing[t].pc = "idle"
  /\ firing' = [firing EXCEPT ![t] = [IdleFire EXCEPT
                   !.pc = "lock",
                   !.alert = [severity |-> severity, source |-> source,
                              message |-> message, timestamp |-> clock]]]
  /\ UNCHANGED <<allowed, session_approved, session_denied, audit_log,
                 unknown_action, policy_file, pending, requests, gate_history,
                 gate_lock, gate_attached, alert_history, proxy, human,
                 alert_file, clock, socketio, scanner, monitor>>

\* fire, lines 40-44: "with self._lock" append and trim.
FireAppend(t) ==
  /\ firing[t].pc = "lock"
  /\ fire_locked(firing[t].alert)
  /\ firing' = [firing EXCEPT ![t].pc = "write_log"]
  /\ UNCHANGED <<allowed, session_approved, session_denied, audit_log,
                 unknown_action, policy_file, pending, requests, gate_history,
                 gate_lock, gate_attached, proxy, human,
                 alert_file, clock, socketio, scanner, monitor>>

\* _write_log: append the JSON line; OSError is swallowed.
FireWriteLog(t, outcome) ==
  /\ firing[t].pc = "write_log"
  /\ alert_file' = IF outcome = "ok"
                     THEN Append(alert_file, [kind |-> "json", value |-> firing[t].alert])
                     ELSE alert_file
  /\ firing' = [firing EXCEPT ![t].attempted = @ \cup {"log"}, ![t].pc = "print"]
  /\ UNCHANGED <<allowed, session_approved, session_denied, audit_log,
                 unknown_action, policy_file, pending, requests, gate_history,
                 gate_lock, gate_attached, alert_history, proxy, human,
                 clock, socketio, scanner, monitor>>

\* _print_terminal: console.print, with nothing catching what it raises.
FirePrint(t, outcome) ==
  /\ firing[t].pc = "print"
  /\ firing' = IF outcome = "ok"
                 THEN [firing EXCEPT ![t].attempted = @ \cup {"terminal"},
                                     ![t].pc = "websocket"]
                 ELSE [firing EXCEPT ![t].attempted = @ \cup {"terminal"},
                                     ![t].error = outcome, ![t].pc = "raised"]
  /\ UNCHANGED <<allowed, session_approved, session_denied, audit_log,
                 unknown_action, policy_file, pending, requests, gate_history,
                 gate_lock, gate_attached, alert_history, proxy, human,
                 alert_file, clock, socketio, scanner, monitor>>

\* _send_websocket: emit under contextlib.suppress(Exception), when a socketio
\* is set; then "if severity == CRITICAL".
FireWebsocket(t, outcome) ==
  /\ firing[t].pc = "websocket"
  /\ socketio \/ outcome = "ok"
  /\ firing' = [firing EXCEPT
                  ![t].attempted = IF socketio THEN @ \cup {"websocket"} ELSE @,
                  ![t].pc = IF firing[t].alert.severity = "CRITICAL" THEN "toast" ELSE "done"]
  /\ UNCHANGED <<allowed, session_approved, session_denied, audit_log,
                 unknown_action, policy_file, pending, requests, gate_history,
                 gate_lock, gate_attached, alert_history, proxy, human,
                 alert_file, clock, socketio, scanner, monitor>>

\* _send_toast: sanitise title and message, build the script, Popen; only
\* FileNotFoundError is caught.
FireToast(t, outcome) ==
  LET a == firing[t].alert
      toast == [title |-> _sanitize_for_toast(ToastTitle(a.source)),
                message |-> _sanitize_for_toast(a.message),
                launched |-> outcome = "ok"]
  IN  /\ firing[t].pc = "toast"
      /\ firing' = IF outcome \in {"ok", "FileNotFoundError"}
                     THEN [firing EXCEPT ![t].attempted = @ \cup {"toast"},
                                         ![t].toast = toast, ![t].pc = "done"]
                     ELSE [firing EXCEPT ![t].attempted = @ \cup {"toast"},
                                         ![t].toast = toast,
                                         ![t].error = outcome, ![t].pc = "raised"]
      /\ UNCHANGED <<allowed, session_approved, session_denied, audit_log,
                     unknown_action, policy_file, pending, requests, gate_history,
                     gate_lock, gate_attached, alert_history, proxy, human,
                     alert_file, clock, socketio, scanner, monitor>>

\* Time passes.
MaxClock == 2

Tick ==
  /\ clock < MaxClock
  /\ clock' = clock + 1
  /\ UNCHANGED <<allowed, session_approved, session_denied, audit_log,
                 unknown_action, policy_file, pending, requests, gate_history,
                 gate_lock, gate_attached, alert_history, proxy, human,
                 alert_file, socketio, firing, scanner, monitor>>

\* ------------------------------------------------------------------------
\* SecurityMonitor: start, stop, pause, resume and the watcher threads
\* ------------------------------------------------------------------------

\* The calls of start explored.
MaxStarts == 2

Channels == {"stats", "processes", "network", "logs", "health", "events"}

\* The watchers list with the health and events watchers appended
\* whatever the profile selects.
Watchers_health_and_events_always(profile) ==
  (IF profile.resource_limits THEN <<"stats">> ELSE <<>>)
    \o (IF profile.process_watchdog THEN <<"processes">> ELSE <<>>)
    \o (IF profile.network_auditor THEN <<"network">> ELSE <<>>)
    \o (IF profile.log_scanner THEN <<"logs">> ELSE <<>>)
    \o <<"health", "events">>

\* start: the watchers list built from the profile.
Watchers(profile) ==
  LET selected ==
        (IF profile.resource_limits THEN <<"stats">> ELSE <<>>)
          \o (IF profile.process_watchdog THEN <<"processes">> ELSE <<>>)
          \o (IF profile.network_auditor THEN <<"network">> ELSE <<>>)
          \o (IF profile.log_scanner THEN <<"logs">> ELSE <<>>)
  IN  IF selected # <<>> THEN selected \o <<"health", "events">> ELSE selected

\* A watcher thread that start has created: it is at the head of its
\* method. batch is the list its last poll returned, k the position in it,
\* wake the time at which its timed wait ends,
\* seen the seen_remotes of _watch_network, item what it is alerting about.
NewWatcher(channel) ==
  [channel |-> channel, alive |-> TRUE, pc |-> "loop",
   batch |-> <<>>, k |-> 0, seen |-> {}, item |-> <<>>, wake |-> 0]

\* SecurityMonitor.start: clear both events, create and start one thread per
\* watcher, append them to _threads, fire INFO when _threads is not empty.
MonitorStart ==
  LET watchers == Watchers(monitor.profile)
      created == [i \in 1..Len(watchers) |-> NewWatcher(watchers[i])]
      tracked == [i \in 1..Len(watchers) |-> Len(monitor.spawned) + i]
      channel_count == Len(monitor.threads) + Len(watchers)
  IN  /\ monitor.starts < MaxStarts
      /\ ~monitor.stopping
      /\ monitor' = [monitor EXCEPT !.stop_event = FALSE, !.paused = FALSE,
                                     !.spawned = @ \o created,
                                     !.threads = @ \o tracked,
                                     !.starts = @ + 1]
      /\ IF channel_count > 0
           THEN fire("INFO", "monitor",
                     [text |-> "Security monitor started", channels |-> channel_count])
           ELSE UNCHANGED alert_history
      /\ UNCHANGED <<allowed, session_approved, session_denied, audit_log,
                     unknown_action, policy_file, pending, requests, gate_history,
                     gate_lock, gate_attached, proxy, human,
                     alert_file, clock, socketio, firing, scanner>>

\* SecurityMonitor.stop: set the stop event and start joining the threads of
\* _threads, each for up to 3 seconds.
MonitorStop ==
  /\ ~monitor.stopping
  /\ monitor' = [monitor EXCEPT !.stop_event = TRUE, !.stopping = TRUE]
  /\ UNCHANGED <<allowed, session_approved, session_denied, audit_log,
                 unknown_action, policy_file, pending, requests, gate_history,
                 gate_lock, gate_attached, alert_history, proxy, human,
                 alert_file, clock, socketio, firing, scanner>>

\* SecurityMonitor.stop: the joins have returned (the thread ended or the
\* timeout elapsed); _threads.clear().
MonitorStopped ==
  /\ monitor.stopping
  /\ monitor' = [monitor EXCEPT !.threads = <<>>, !.stopping = FALSE]
  /\ UNCHANGED <<allowed, session_approved, session_denied, audit_log,
                 unknown_action, policy_file, pending, requests, gate_history,
                 gate_lock, gate_attached, alert_history, proxy, human,
                 alert_file, clock, socketio, firing, scanner>>

\* A watcher loop sees _should_stop() and its thread ends.
WatcherExit(i) ==
  /\ i \in DOMAIN monitor.spawned
  /\ monitor.spawned[i].alive
  /\ monitor.stop_event
  /\ monitor' = [monitor EXCEPT !.spawned[i].alive = FALSE]
  /\ UNCHANGED <<allowed, session_approved, session_denied, audit_log,
                 unknown_action, policy_file, pending, requests, gate_history,
                 gate_lock, gate_attached, alert_history, proxy, human,
                 alert_file, clock, socketio, firing, scanner>>

\* pause_monitoring
PauseMonitoring ==
  /\ ~monitor.paused
  /\ monitor' = [monitor EXCEPT !.paused = TRUE]
  /\ UNCHANGED <<allowed, session_approved, session_denied, audit_log,
                 unknown_action, policy_file, pending, requests, gate_history,
                 gate_lock, gate_attached, alert_history, proxy, human,
                 alert_file, clock, socketio, firing, scanner>>

\* resume_monitoring
ResumeMonitoring ==
  /\ monitor.paused
  /\ monitor' = [monitor EXCEPT !.paused = FALSE]
  /\ UNCHANGED <<allowed, session_approved, session_denied, audit_log,
                 unknown_action, policy_file, pending, requests, gate_history,
                 gate_lock, gate_attached, alert_history, proxy, human,
                 alert_file, clock, socketio, firing, scanner>>

\* ------------------------------------------------------------------------
\* EgressPolicy.scan_for_secrets and its decoders
\* ------------------------------------------------------------------------

\* The printable ASCII characters, code 32 to 126, in code order ("GRAVE"
\* stands for the grave accent, code 96).
Ascii ==
  <<
    " ", "!", "\"", "#", "$", "%", "&", "'", "(", ")", "*", "+", ",", "-",
    ".", "/", "0", "1", "2", "3", "4", "5", "6", "7", "8", "9", ":", ";",
    "<", "=", ">", "?", "@", "A", "B", "C", "D", "E", "F", "G", "H", "I",
    "J", "K", "L", "M", "N", "O", "P", "Q", "R", "S", "T", "U", "V", "W",
    "X", "Y", "Z", "[", "\\", "]", "^", "_", "GRAVE", "a", "b", "c", "d",
    "e", "f", "g", "h", "i", "j", "k", "l", "m", "n", "o", "p", "q", "r",
    "s", "t", "u", "v", "w", "x", "y", "z", "{", "|", "}", "~"
  >>

\* The characters \s matches: space, \t, \n, \v, \f, \r.
WsChars == {" ", "\t", "\n", "VT", "\f", "\r"}

\* ord(c) of a printable ASCII character.
Ord(c) == 31 + (CHOOSE i \in DOMAIN Ascii : Ascii[i] = c)

\* chr(b) of a byte, as a character of the model ("OTHER" for a character
\* that is neither printable ASCII nor ASCII white space).
Chr(b) ==
  IF b >= 32 /\ b <= 126 THEN Ascii[b - 31]
  ELSE IF b = 9 THEN "\t"
  ELSE IF b = 10 THEN "\n"
  ELSE IF b = 11 THEN "VT"
  ELSE IF b = 12 THEN "\f"
  ELSE IF b = 13 THEN "\r"
  ELSE "OTHER"

Alnum == LowerLetters \cup UpperLetters \cup Digits

\* The hexadecimal digits in value order, in lower case.
HexChars == <<"0", "1", "2", "3", "4", "5", "6", "7", "8", "9", "a", "b", "c", "d", "e", "f">>

HexDigits == Digits \cup {"a", "b", "c", "d", "e", "f", "A", "B", "C", "D", "E", "F"}

\* int(c, 16)
HexVal(c) == (CHOOSE i \in DOMAIN HexChars : HexChars[i] = LowerChar(c)) - 1

\* The standard base64 alphabet, value 0 to 63.
B64Alphabet ==
  <<
    "A", "B", "C", "D", "E", "F", "G", "H", "I", "J", "K", "L", "M", "N",
    "O", "P", "Q", "R", "S", "T", "U", "V", "W", "X", "Y", "Z", "a", "b",
    "c", "d", "e", "f", "g", "h", "i", "j", "k", "l", "m", "n", "o", "p",
    "q", "r", "s", "t", "u", "v", "w", "x", "y", "z", "0", "1", "2", "3",
    "4", "5", "6", "7", "8", "9", "+", "/"
  >>

\* The length of the longest run of characters of C that starts at position i.
RECURSIVE Run(_, _, _)
Run(s, i, C) == IF i > Len(s) \/ s[i] \notin C THEN 0 ELSE 1 + Run(s, i + 1, C)

\* The character at position j, or "" when there is none.
CharAt(s, j) == IF j \in DOMAIN s THEN s[j] ELSE ""

\* s holds the literal lit at position i.
At(s, i, lit) ==
  /\ i >= 1
  /\ i + Len(lit) - 1 <= Len(s)
  /\ SubSeq(s, i, i + Len(lit) - 1) = lit

\* The same, ignoring case (lit is in lower case).
AtCI(s, i, lit) ==
  /\ i >= 1
  /\ i + Len(lit) - 1 <= Len(s)
  /\ Lower(SubSeq(s, i, i + Len(lit) - 1)) = lit

\* The positions at which a maximal run of characters of C of length n or
\* more starts, in order: the matches of re.finditer(r"[C]{n,}", s).
LongRuns(s, C, n) ==
  SelectSeq([i \in DOMAIN s |-> i],
            LAMBDA i : /\ s[i] \in C
                       /\ i = 1 \/ s[i - 1] \notin C
                       /\ Run(s, i, C) >= n)

\* --- the forms a secret is sent in --------------------------------------

\* base64.b64encode(s.encode()).decode()
Base64Form(s) ==
  LET n == Len(s)
      byte(k) == IF k <= n THEN Ord(s[k]) ELSE 0
  IN  [k \in 1..(4 * ((n + 2) \div 3)) |->
         LET g == 3 * ((k - 1) \div 4)
         IN  CASE (k - 1) % 4 = 0 -> B64Alphabet[(byte(g + 1) \div 4) + 1]
               [] (k - 1) % 4 = 1 ->
                    B64Alphabet[((byte(g + 1) % 4) * 16 + (byte(g + 2) \div 16)) + 1]
               [] (k - 1) % 4 = 2 ->
                    IF g + 2 > n THEN "="
                    ELSE B64Alphabet[((byte(g + 2) % 16) * 4 + (byte(g + 3) \div 64)) + 1]
               [] (k - 1) % 4 = 3 ->
                    IF g + 3 > n THEN "=" ELSE B64Alphabet[(byte(g + 3) % 64) + 1]]

\* s.encode().hex()
HexForm(s) ==
  [k \in 1..(2 * Len(s)) |->
     IF k % 2 = 1 THEN HexChars[(Ord(s[(k + 1) \div 2]) \div 16) + 1]
                  ELSE HexChars[(Ord(s[k \div 2]) % 16) + 1]]

\* Every character written as a percent escape.
PercentForm(s) ==
  [k \in 1..(3 * Len(s)) |->
     CASE k % 3 = 1 -> "%"
       [] k % 3 = 2 -> HexChars[(Ord(s[(k + 1) \div 3]) \div 16) + 1]
       [] k % 3 = 0 -> HexChars[(Ord(s[k \div 3]) % 16) + 1]]

\* ".".join(s)
DotForm(s) ==
  [k \in 1..(2 * Len(s) - 1) |-> IF k % 2 = 1 THEN s[(k + 1) \div 2] ELSE "."]

\* --- the decoders -------------------------------------------------------

\* bytes.decode("utf-8", errors="strict") followed by "isprintable() and
\* len(decoded) > 10": the text of printable ASCII bytes, or "" when a byte is
\* a control character (decodable, not printable). A byte above 127 (text
\* outside ASCII or undecodable bytes) gives "" as well: the model has no
\* characters outside ASCII.
DecodedText(bytes) ==
  IF (\A i \in DOMAIN bytes : bytes[i] >= 32 /\ bytes[i] <= 126) /\ Len(bytes) > 10
    THEN [i \in DOMAIN bytes |-> Chr(bytes[i])]
    ELSE <<>>

B64Chars == Alnum \cup {"+", "/", "_", "-"}

\* _try_decode_base64, for an argument whose "=" stand at its end (as in
\* every match of the blob pattern): b64decode(validate=True), then
\* urlsafe_b64decode. One of the two succeeds when the data characters come
\* in whole groups of four, or in a rest of two with "==", or in a rest of
\* three with "=" or "=="; both give the same bytes, three per four
\* characters, one for a rest of two, two for a rest of three.
_try_decode_base64(s) ==
  LET cleaned == SelectSeq(s, LAMBDA c : c \notin WsChars)
      ndata == Run(cleaned, 1, B64Chars)
      npad == Len(cleaned) - ndata
      val(i) == IF cleaned[i] = "-" THEN 62
                ELSE IF cleaned[i] = "_" THEN 63
                ELSE (CHOOSE v \in DOMAIN B64Alphabet : B64Alphabet[v] = cleaned[i]) - 1
      bytes == [k \in 1..((3 * ndata) \div 4) |->
                  LET g == 4 * ((k - 1) \div 3)
                  IN  CASE (k - 1) % 3 = 0 -> val(g + 1) * 4 + (val(g + 2) \div 16)
                        [] (k - 1) % 3 = 1 -> (val(g + 2) % 16) * 16 + (val(g + 3) \div 4)
                        [] (k - 1) % 3 = 2 -> (val(g + 3) % 4) * 64 + val(g + 4)]
      wellformed ==
        /\ \A i \in DOMAIN cleaned : cleaned[i] \in B64Chars \cup {"="}
        /\ Len(cleaned) >= 20
        /\ \A i \in (ndata + 1)..Len(cleaned) : cleaned[i] = "="
        /\ npad <= 2
        /\ \/ ndata % 4 = 0
           \/ ndata % 4 = 2 /\ npad = 2
           \/ ndata % 4 = 3 /\ npad >= 1
  IN  IF wellformed THEN DecodedText(bytes) ELSE <<>>

HexSeparators == WsChars \cup {":", "-"}

\* _try_decode_hex
_try_decode_hex(s) ==
  LET cleaned == SelectSeq(s, LAMBDA c : c \notin HexSeparators)
  IN  IF /\ \A i \in DOMAIN cleaned : cleaned[i] \in HexDigits
         /\ Len(cleaned) >= 20
         /\ Len(cleaned) % 2 = 0
        THEN DecodedText([i \in 1..(Len(cleaned) \div 2) |->
                            16 * HexVal(cleaned[2 * i - 1]) + HexVal(cleaned[2 * i])])
        ELSE <<>>

\* urllib.parse.unquote: every "%" followed by two hex digits becomes the
\* character of that byte.
unquote(s) ==
  LET escape(i) == /\ i + 2 <= Len(s)
                   /\ s[i] = "%"
                   /\ s[i + 1] \in HexDigits
                   /\ s[i + 2] \in HexDigits
      kept == SelectSeq([i \in DOMAIN s |-> i],
                        LAMBDA i : /\ ~(i >= 2 /\ escape(i - 1))
                                   /\ ~(i >= 3 /\ escape(i - 2)))
  IN  [k \in DOMAIN kept |->
         IF escape(kept[k])
           THEN Chr(16 * HexVal(s[kept[k] + 1]) + HexVal(s[kept[k] + 2]))
           ELSE s[kept[k]]]

\* _try_url_decode
_try_url_decode(s) ==
  IF \A i \in DOMAIN s : s[i] # "%" THEN <<>>
  ELSE LET decoded == unquote(s) IN IF decoded # s THEN decoded ELSE <<>>

\* The groups "[0-9a-fA-F]{2}[\s:-]?" matched greedily from position i: how
\* many there are, and the position after the last one.
RECURSIVE HexGroups(_, _)
HexGroups(s, i) ==
  IF i + 1 <= Len(s) /\ s[i] \in HexDigits /\ s[i + 1] \in HexDigits
    THEN LET j == IF i + 2 <= Len(s) /\ s[i + 2] \in HexSeparators THEN i + 3 ELSE i + 2
             rest == HexGroups(s, j)
         IN  [count |-> rest.count + 1, end |-> rest.end]
    ELSE [count |-> 0, end |-> i]

\* re.finditer(r"(?:[0-9a-fA-F]{2}[\s:-]?){15,}", s), from position i on:
\* the leftmost position where 15 groups or more match, then the rest.
RECURSIVE HexBlobs(_, _)
HexBlobs(s, i) ==
  LET starts == SelectSeq([j \in DOMAIN s |-> j],
                          LAMBDA j : j >= i /\ HexGroups(s, j).count >= 15)
  IN  IF starts = <<>> THEN <<>>
      ELSE LET end == HexGroups(s, starts[1]).end
           IN  <<SubSeq(s, starts[1], end - 1)>> \o HexBlobs(s, end)

\* re.sub(r"(?<=\S)[.\s,]+(?=\S)", "", s). Of a maximal run s[p..q] of
\* [.\s,] the match starts at p when a character stands before the run,
\* and else after the first "." or "," of the run; it ends at q when a
\* character follows the run, and else before the last "." or "," of the
\* run. A run has one match at most.
RemoveSeparators(s) ==
  LET SeparatorChars == WsChars \cup {".", ","}
      removed(i) ==
        /\ s[i] \in SeparatorChars
        /\ LET before == {j \in 1..i : s[j] \notin SeparatorChars}
               after == {j \in i..Len(s) : s[j] \notin SeparatorChars}
               p == IF before = {} THEN 1
                    ELSE (CHOOSE j \in before : \A k \in before : k <= j) + 1
               q == IF after = {} THEN Len(s)
                    ELSE (CHOOSE j \in after : \A k \in after : j <= k) - 1
               marks == {j \in p..q : s[j] \in {".", ","}}
               first == IF p > 1 THEN p
                        ELSE IF marks = {} THEN q + 1
                        ELSE (CHOOSE j \in marks : \A k \in marks : j <= k) + 1
               ends == {k \in first..q : k < q /\ s[k + 1] \in {".", ","}}
               last == IF q < Len(s) THEN q
                       ELSE IF ends = {} THEN 0
                       ELSE CHOOSE k \in ends : \A m \in ends : m <= k
           IN  first <= i /\ i <= last
      kept == SelectSeq([i \in DOMAIN s |-> i], LAMBDA i : ~removed(i))
  IN  [k \in DOMAIN kept |-> s[kept[k]]]

\* _deobfuscate_layers: the decoded base64 blobs (the maximal runs of 28 or
\* more base64 characters, with up to two "=" after them), the decoded hex
\* blobs, the URL-decoded content, the content without separators, the
\* reversed content.
_deobfuscate_layers(content) ==
  LET b64_starts == LongRuns(content, B64Chars, 28)
      b64 == [k \in DOMAIN b64_starts |->
                LET r == Run(content, b64_starts[k], B64Chars)
                    p == Run(content, b64_starts[k] + r, {"="})
                IN  _try_decode_base64(SubSeq(content, b64_starts[k],
                      b64_starts[k] + r + (IF p > 2 THEN 2 ELSE p) - 1))]
      hex_blobs == HexBlobs(content, 1)
      hex == [k \in DOMAIN hex_blobs |-> _try_decode_hex(hex_blobs[k])]
      url_decoded == _try_url_decode(content)
      separated == RemoveSeparators(content)
      reversed_content == [i \in DOMAIN content |-> content[Len(content) + 1 - i]]
  IN  SelectSeq(b64, LAMBDA d : d # <<>>)
        \o SelectSeq(hex, LAMBDA d : d # <<>>)
        \o (IF url_decoded # <<>> THEN <<url_decoded>> ELSE <<>>)
        \o (IF separated # content /\ Len(separated) > 20 THEN <<separated>> ELSE <<>>)
        \o (IF Len(content) < 2000 THEN <<reversed_content>> ELSE <<>>)

\* --- SECRET_PATTERNS and SENSITIVE_DATA_PATTERNS ------------------------

\* "\s*[:=]\s*" at position e: the position after it, or 0 when it does not
\* match there.
AfterAssign(s, e) ==
  LET c == e + Run(s, e, WsChars)
  IN  IF CharAt(s, c) \in {":", "="} THEN c + 1 + Run(s, c + 1, WsChars) ELSE 0

\* SECRET_PATTERNS[k - 1].search(s) finds a match.
SecretPatternSearch(k, s) ==
  LET KeyWords ==
        {<<<<"a", "p", "i">>, <<"k", "e", "y">>>>,
         <<<<"a", "p", "i">>, <<"s", "e", "c", "r", "e", "t">>>>,
         <<<<"a", "c", "c", "e", "s", "s">>, <<"t", "o", "k", "e", "n">>>>,
         <<<<"p", "r", "i", "v", "a", "t", "e">>, <<"k", "e", "y">>>>}
      \* the positions after a key word at position i, with or without the
      \* "_" or "-" between its two parts
      KeywordEnds(i) ==
        {i + Len(w[1]) + Len(w[2]) :
           w \in {x \in KeyWords : AtCI(s, i, x[1]) /\ AtCI(s, i + Len(x[1]), x[2])}}
        \cup
        {i + Len(w[1]) + 1 + Len(w[2]) :
           w \in {x \in KeyWords : /\ AtCI(s, i, x[1])
                                   /\ CharAt(s, i + Len(x[1])) \in {"_", "-"}
                                   /\ AtCI(s, i + Len(x[1]) + 1, x[2])}}
  IN  \E i \in DOMAIN s :
        CASE k = 1 -> At(s, i, <<"s", "k", "-">>) /\ Run(s, i + 3, Alnum) >= 20
          [] k = 2 -> /\ At(s, i, <<"s", "k", "-", "a", "n", "t", "-">>)
                      /\ Run(s, i + 7, Alnum \cup {"_", "-"}) >= 20
          [] k = 3 -> /\ \E p \in {<<"A", "K", "I", "A">>, <<"A", "B", "I", "A">>,
                                   <<"A", "C", "C", "A">>, <<"A", "S", "I", "A">>} :
                           At(s, i, p)
                      /\ Run(s, i + 4, UpperLetters \cup Digits) >= 16
          [] k = 4 -> /\ AtCI(s, i, <<"b", "e", "a", "r", "e", "r">>)
                      /\ Run(s, i + 6, WsChars) >= 1
                      /\ Run(s, i + 6 + Run(s, i + 6, WsChars),
                             Alnum \cup {".", "_", "~", "+", "/", "=", "-"}) >= 30
          [] k = 5 -> At(s, i, <<"g", "h", "p", "_">>) /\ Run(s, i + 4, Alnum) >= 36
          [] k = 6 -> /\ At(s, i, <<"g", "l", "p", "a", "t", "-">>)
                      /\ Run(s, i + 6, Alnum \cup {"_", "-"}) >= 20
          [] k = 7 -> /\ At(s, i, <<"x", "o", "x">>)
                      /\ CharAt(s, i + 3) \in {"b", "p", "s", "a"}
                      /\ CharAt(s, i + 4) = "-"
                      /\ Run(s, i + 5, Alnum \cup {"-"}) >= 10
          [] k = 8 -> \E e \in KeywordEnds(i) :
                        LET j == AfterAssign(s, e)
                            v == IF CharAt(s, j) \in {"'", "\""} THEN j + 1 ELSE j
                        IN  j > 0 /\ Run(s, v, B64Chars \cup {"="}) >= 20

\* A word character (\w) stands at position j.
IsWordAt(s, j) == CharAt(s, j) \in Alnum \cup {"_"}

\* n groups "\d{1,3}" with "\." between them from position j on, and "\b"
\* after the last.
RECURSIVE Octets(_, _, _)
Octets(s, j, n) ==
  LET r == Run(s, j, Digits)
  IN  /\ r \in 1..3
      /\ IF n = 1 THEN ~IsWordAt(s, j + r)
                  ELSE CharAt(s, j + r) = "." /\ Octets(s, j + r + 1, n - 1)

\* SENSITIVE_DATA_PATTERNS[k - 1].search(s) finds a match.
SensitivePatternSearch(k, s) ==
  \E i \in DOMAIN s :
    CASE k = 1 -> ~IsWordAt(s, i - 1) /\ At(s, i, <<"1", "0", ".">>) /\ Octets(s, i + 3, 3)
      [] k = 2 -> /\ ~IsWordAt(s, i - 1)
                  /\ At(s, i, <<"1", "7", "2", ".">>)
                  /\ \/ CharAt(s, i + 4) = "1" /\ CharAt(s, i + 5) \in {"6", "7", "8", "9"}
                     \/ CharAt(s, i + 4) = "2" /\ CharAt(s, i + 5) \in Digits
                     \/ CharAt(s, i + 4) = "3" /\ CharAt(s, i + 5) \in {"0", "1"}
                  /\ CharAt(s, i + 6) = "."
                  /\ Octets(s, i + 7, 2)
      [] k = 3 -> /\ ~IsWordAt(s, i - 1)
                  /\ At(s, i, <<"1", "9", "2", ".", "1", "6", "8", ".">>)
                  /\ Octets(s, i + 8, 2)
      [] k = 4 -> \E kind \in {<<>>, <<"R", "S", "A", " ">>, <<"E", "C", " ">>,
                               <<"O", "P", "E", "N", "S", "S", "H", " ">>} :
                    At(s, i, <<"-", "-", "-", "-", "-", "B", "E", "G", "I", "N", " ">> \o kind
                               \o <<"P", "R", "I", "V", "A", "T", "E", " ", "K", "E", "Y", "-", "-", "-", "-", "-">>)
      [] k = 5 -> \E mark \in {"x", "*"} :
                    At(s, i, <<"r", "o", "o", "t", ":">> \o <<mark>> \o <<":", "0", ":", "0", ":">>)
      [] k = 6 -> \E w \in {<<"h", "o", "s", "t", "n", "a", "m", "e">>,
                            <<"u", "s", "e", "r", "n", "a", "m", "e">>,
                            <<"w", "h", "o", "a", "m", "i">>, <<"u", "n", "a", "m", "e">>} :
                    /\ AtCI(s, i, w)
                    /\ LET j == AfterAssign(s, i + Len(w))
                       IN  j > 0 /\ j <= Len(s) /\ s[j] \notin WsChars

\* --- _shannon_entropy ---------------------------------------------------

ENTROPY_THRESHOLD_x10000 == 48000

MIN_ENTROPY_LENGTH == 30

\* round(10000 * math.log2(n)) for n = 1..128, the token lengths scanned here.
Log2x10000 ==
  <<
    0, 10000, 15850, 20000, 23219, 25850, 28074, 30000, 31699, 33219, 34594,
    35850, 37004, 38074, 39069, 40000, 40875, 41699, 42479, 43219, 43923,
    44594, 45236, 45850, 46439, 47004, 47549, 48074, 48580, 49069, 49542,
    50000, 50444, 50875, 51293, 51699, 52095, 52479, 52854, 53219, 53576,
    53923, 54263, 54594, 54919, 55236, 55546, 55850, 56147, 56439, 56724,
    57004, 57279, 57549, 57814, 58074, 58329, 58580, 58826, 59069, 59307,
    59542, 59773, 60000, 60224, 60444, 60661, 60875, 61085, 61293, 61497,
    61699, 61898, 62095, 62288, 62479, 62668, 62854, 63038, 63219, 63399,
    63576, 63750, 63923, 64094, 64263, 64429, 64594, 64757, 64919, 65078,
    65236, 65392, 65546, 65699, 65850, 65999, 66147, 66294, 66439, 66582,
    66724, 66865, 67004, 67142, 67279, 67415, 67549, 67682, 67814, 67944,
    68074, 68202, 68329, 68455, 68580, 68704, 68826, 68948, 69069, 69189,
    69307, 69425, 69542, 69658, 69773, 69887, 70000
  >>

\* The sum of c * log2(c) over the characters of S, c being the number of
\* times the character stands in t.
RECURSIVE SumCountLog(_, _)
SumCountLog(t, S) ==
  IF S = {} THEN 0
  ELSE LET c == CHOOSE x \in S : TRUE
           n == Cardinality({i \in DOMAIN t : t[i] = c})
       IN  n * Log2x10000[n] + SumCountLog(t, S \ {c})

\* _shannon_entropy(t) >= ENTROPY_THRESHOLD for a token of n characters:
\* -sum((c/n) * log2(c/n)) >= 4.8 is n*log2(n) - sum(c*log2(c)) >= 4.8*n,
\* in fixed point with four decimals.
HighEntropy(t) ==
  Len(t) * Log2x10000[Len(t)] >= SumCountLog(t, {t[i] : i \in DOMAIN t})
                                   + ENTROPY_THRESHOLD_x10000 * Len(t)

\* --- scan_for_secrets ---------------------------------------------------

\* EgressPolicy.scan_for_secrets: the findings of Layer 1 (the secret
\* patterns on the content), Layer 2 (the secret patterns on every
\* deobfuscated variant, variant by variant), Layer 3 (the tokens of 30 or
\* more base64 characters or "=" of high entropy, each with its length) and
\* Layer 4 (the sensitive data patterns on the content).
scan_for_secrets(content) ==
  LET Token == B64Chars \cup {"="}
      variants == _deobfuscate_layers(content)
      hits1 == SelectSeq([k \in 1..8 |-> k], LAMBDA k : SecretPatternSearch(k, content))
      hits2 == SelectSeq([n \in 1..(8 * Len(variants)) |-> n],
                         LAMBDA n : SecretPatternSearch(((n - 1) % 8) + 1,
                                                        variants[((n - 1) \div 8) + 1]))
      starts == LongRuns(content, Token, 30)
      tokens == [n \in DOMAIN starts |->
                   SubSeq(content, starts[n], starts[n] + Run(content, starts[n], Token) - 1)]
      hits3 == SelectSeq(tokens, LAMBDA t : Len(t) >= MIN_ENTROPY_LENGTH /\ HighEntropy(t))
      hits4 == SelectSeq([k \in 1..6 |-> k], LAMBDA k : SensitivePatternSearch(k, content))
  IN  [n \in DOMAIN hits1 |-> [layer |-> "secret_pattern", pattern |-> hits1[n]]]
        \o [n \in DOMAIN hits2 |->
              [layer |-> "obfuscated_secret", pattern |-> ((hits2[n] - 1) % 8) + 1]]
        \o [n \in DOMAIN hits3 |-> [layer |-> "high_entropy", pattern |-> Len(hits3[n])]]
        \o [n \in DOMAIN hits4 |-> [layer |-> "sensitive_data", pattern |-> hits4[n]]]

\* The secrets scanned, each matched in full by one entry of SECRET_PATTERNS:
\* for each pattern in turn its shortest match, then for each a longer one.
ScanSecrets ==
  {
    <<
      "s", "k", "-", "a", "b", "c", "d", "e", "f", "g", "h", "i", "j", "0",
      "1", "2", "3", "4", "5", "6", "7", "8", "9"
    >>,
    <<
      "s", "k", "-", "a", "n", "t", "-", "a", "b", "c", "d", "e", "f", "g",
      "h", "i", "j", "0", "1", "2", "3", "4", "5", "6", "7", "8", "9"
    >>,
    <<
      "A", "K", "I", "A", "A", "B", "C", "D", "E", "F", "G", "H", "1", "2",
      "3", "4", "5", "6", "7", "8"
    >>,
    <<
      "b", "e", "a", "r", "e", "r", " ", "a", "b", "c", "d", "e", "f", "g",
      "h", "i", "j", "0", "1", "2", "3", "4", "5", "6", "7", "8", "9", "A",
      "B", "C", "D", "E", "F", "G", "H", "I", "J"
    >>,
    <<
      "g", "h", "p", "_", "a", "1", "b", "2", "c", "3", "d", "4", "e", "5",
      "f", "6", "a", "1", "b", "2", "c", "3", "d", "4", "e", "5", "f", "6",
      "a", "1", "b", "2", "c", "3", "d", "4", "e", "5", "f", "6"
    >>,
    <<
      "g", "l", "p", "a", "t", "-", "a", "b", "c", "d", "e", "f", "g", "h",
      "i", "j", "0", "1", "2", "3", "4", "5", "6", "7", "8", "9"
    >>,
    <<
      "x", "o", "x", "b", "-", "a", "b", "c", "d", "e", "1", "2", "3", "4",
      "5"
    >>,
    <<
      "a", "p", "i", "k", "e", "y", "=", "a", "b", "c", "d", "e", "f", "g",
      "h", "i", "j", "0", "1", "2", "3", "4", "5", "6", "7", "8", "9"
    >>,
    <<
      "s", "k", "-", "Z", "x", "9", "Q", "w", "8", "E", "r", "7", "T", "y",
      "6", "U", "i", "5", "O", "p", "4", "A", "s", "3", "D", "f", "2", "G",
      "h", "1", "J", "k", "0", "L", "m"
    >>,
    <<
      "s", "k", "-", "a", "n", "t", "-", "a", "p", "i", "0", "3", "-", "Z",
      "x", "9", "Q", "w", "8", "E", "r", "7", "T", "y", "6", "_", "U", "i",
      "5", "O", "p", "4", "A", "s", "3", "D", "f"
    >>,
    <<
      "A", "S", "I", "A", "Z", "9", "Y", "8", "X", "7", "W", "6", "V", "5",
      "U", "4", "T", "3", "S", "2"
    >>,
    <<
      "B", "e", "a", "r", "e", "r", " ", "e", "y", "J", "h", "b", "G", "c",
      "i", "O", "i", "J", "I", "U", "z", "I", "1", "N", "i", "J", "9", ".",
      "e", "y", "J", "z", "d", "W", "I", "i", "O", "i", "I", "x", "M", "j",
      "M", "0", "I", "n", "0", ".", "c", "2", "l", "n"
    >>,
    <<
      "g", "h", "p", "_", "Z", "x", "9", "Q", "w", "8", "E", "r", "7", "T",
      "y", "6", "U", "i", "5", "O", "p", "4", "A", "s", "3", "D", "f", "2",
      "G", "h", "1", "J", "k", "0", "L", "m", "7", "N", "b", "6"
    >>,
    <<
      "g", "l", "p", "a", "t", "-", "Z", "x", "9", "Q", "w", "8", "E", "r",
      "7", "T", "y", "6", "-", "U", "i", "5", "O", "p", "4", "A", "s", "3",
      "D", "f", "_", "2"
    >>,
    <<
      "x", "o", "x", "p", "-", "1", "2", "3", "4", "5", "6", "7", "8", "9",
      "0", "1", "2", "-", "a", "b", "c", "d", "e", "f", "g", "h", "i", "j",
      "k", "l"
    >>,
    <<
      "a", "c", "c", "e", "s", "s", "_", "t", "o", "k", "e", "n", ":", " ",
      "'", "Z", "x", "9", "Q", "w", "8", "E", "r", "7", "T", "y", "6", "U",
      "i", "5", "O", "p", "4", "A", "s", "3", "D", "f", "2", "'"
    >>
  }

\* The base64, hex, percent-encoded and dot-separated forms of the secrets.
EncodedContents ==
  UNION {{Base64Form(s), HexForm(s), PercentForm(s), DotForm(s)} : s \in ScanSecrets}

ScanContents == ScanSecrets \cup EncodedContents

\* EgressPolicy.scan_for_secrets, from the call to the return.
ScanForSecrets ==
  /\ scanner.pc = "called"
  /\ scanner' = [scanner EXCEPT !.pc = "done",
                                !.findings = scan_for_secrets(scanner.content)]
  /\ UNCHANGED <<allowed, session_approved, session_denied, audit_log,
                 unknown_action, policy_file, pending, requests, gate_history,
                 gate_lock, gate_attached, alert_history, proxy, human,
                 alert_file, clock, socketio, firing, monitor>>

\* ------------------------------------------------------------------------
\* Specification
\* ------------------------------------------------------------------------

\* One step of a proxy handler thread.
HandlerStep(h) ==
  \/ \E host \in Hosts, method \in Methods : Accept(h, host, method)
  \/ EnforceCheck(h)
  \/ EnforceLog(h)
  \/ EnforceLogReview(h)
  \/ RespondBlocked(h)
  \/ \E reachable \in BOOLEAN : ConnectUpstream(h, reachable)
  \/ \E secrets_found \in BOOLEAN : HttpScan(h, secrets_found)
  \/ HttpSecretsLog(h)
  \/ HttpSecretsAlert(h)
  \/ \E reachable \in BOOLEAN : HttpForward(h, reachable)

\* One step inside ActionGate.request_approval.
RequestApprovalStep(h) ==
  \/ RequestApprovalEnter(h)
  \/ RequestApprovalNotify(h)
  \/ WaitReturns(h)
  \/ WaitVerdict(h)
  \/ RequestApprovalPop(h)
  \/ RequestApprovalLogDecision(h)

\* The proxy with its policy and gate, and the operator deciding for the
\* session through the gate or denying through the policy itself.
Next ==
  \/ \E h \in ProxyThreads : HandlerStep(h)
  \/ \E h \in ProxyThreads : RequestApprovalStep(h)
  \/ \E o \in Operators, d \in DecideDomains : GateApprove(o, d, FALSE)
  \/ \E o \in Operators : GateApproveSignal(o)
  \/ \E o \in Operators, d \in DecideDomains : GateDeny(o, d)
  \/ \E o \in Operators : GateDenySignal(o)
  \/ \E o \in Operators, d \in DecideDomains : SessionDeny(o, d)

Spec == Init /\ [][Next]_vars

\* The gate alone: threads blocked in request_approval, and the operator
\* deciding for the session.
InitGate == Init /\ unknown_action = "pending" /\ gate_attached

NextGate ==
  \/ \E h \in GateCallers, d \in GateDomains : RequestApprovalCall(h, d, 443)
  \/ \E h \in GateCallers : RequestApprovalStep(h)
  \/ \E o \in Operators, d \in DecideDomains : GateApprove(o, d, FALSE)
  \/ \E o \in Operators : GateApproveSignal(o)
  \/ \E o \in Operators, d \in DecideDomains : GateDeny(o, d)
  \/ \E o \in Operators : GateDenySignal(o)

SpecGate == InitGate /\ [][NextGate]_vars

\* The gate with a burst of callers and a single decision of the operator.
NextCoalesce ==
  \/ \E h \in GateCallers, d \in GateDomains : RequestApprovalCall(h, d, 443)
  \/ \E h \in GateCallers : RequestApprovalStep(h)
  \/ \E o \in Operators, d \in DecideDomains :
        human[o].op = None /\ GateApprove(o, d, FALSE)
  \/ \E o \in Operators : GateApproveSignal(o)
  \/ \E o \in Operators, d \in DecideDomains :
        human[o].op = None /\ GateDeny(o, d)
  \/ \E o \in Operators : GateDenySignal(o)

SpecCoalesce == InitGate /\ [][NextCoalesce]_vars

\* The gate with an operator who approves only after a caller's wait has
\* ended by the timeout.
TimedOut(h) == proxy[h].pc = "read" /\ proxy[h].timed_out

NextLateDecision ==
  \/ \E h \in GateCallers, d \in GateDomains : RequestApprovalCall(h, d, 443)
  \/ \E h \in GateCallers : RequestApprovalStep(h)
  \/ \E o \in Operators, d \in DecideDomains :
        (\E h \in GateCallers : TimedOut(h)) /\ GateApprove(o, d, FALSE)
  \/ \E o \in Operators : GateApproveSignal(o)

SpecLateDecision == InitGate /\ [][NextLateDecision]_vars

\* Proxy handler threads whose requests go to the same unknown domain, one
\* after the other or together, up to the return of _enforce, and an
\* operator who decides once or leaves the requests to their timeout.
NextTimeout ==
  \/ \E h \in GateCallers, host \in GateDomains : Accept(h, host, "CONNECT")
  \/ \E h \in GateCallers : EnforceCheck(h)
  \/ \E h \in GateCallers : EnforceLog(h)
  \/ \E h \in GateCallers : RequestApprovalStep(h)
  \/ \E h \in GateCallers : EnforceLogReview(h)
  \/ \E o \in Operators, d \in DecideDomains :
        human[o].op = None /\ GateApprove(o, d, FALSE)
  \/ \E o \in Operators : GateApproveSignal(o)
  \/ \E o \in Operators, d \in DecideDomains :
        human[o].op = None /\ GateDeny(o, d)
  \/ \E o \in Operators : GateDenySignal(o)

SpecTimeout == InitGate /\ [][NextTimeout]_vars

\* The gate with session and permanent approvals.
NextApprove ==
  \/ \E h \in ApproveWaiters, d \in GateDomains : RequestApprovalCall(h, d, 443)
  \/ \E h \in ApproveWaiters : RequestApprovalStep(h)
  \/ \E o \in Operators, d \in DecideDomains, permanent \in BOOLEAN :
        GateApprove(o, d, permanent)
  \/ \E o \in Operators : GateApproveSignal(o)
  \/ \E o \in Operators, d \in DecideDomains : GateDeny(o, d)
  \/ \E o \in Operators : GateDenySignal(o)
  \/ \E o \in Operators : SaveSnapshot(o)
  \/ \E o \in Operators : SaveWrite(o)

SpecApprove == InitGate /\ [][NextApprove]_vars

\* The policy engine alone, under calls of its methods and of the gate's
\* approve / deny.
InitPolicy == Init /\ gate_attached

NextPolicy ==
  \E o \in Operators :
    \/ \E d \in PolicyDomains : CheckDomain(o, d)
    \/ \E d \in PolicyDomains : SessionApprove(o, d)
    \/ \E d \in PolicyDomains : SessionDeny(o, d)
    \/ \E d \in PermanentDomains \cup PolicyPatterns : AddPermanent(o, d)
    \/ \E d \in PermanentDomains \cup PolicyPatterns : RemovePermanent(o, d)
    \/ \E d \in PolicyDomains : GateApprove(o, d, FALSE)
    \/ \E d \in PermanentDomains : GateApprove(o, d, TRUE)
    \/ GateApproveSignal(o)
    \/ \E d \in PolicyDomains : GateDeny(o, d)
    \/ GateDenySignal(o)
    \/ SaveSnapshot(o)
    \/ SaveWrite(o)

SpecPolicy == InitPolicy /\ [][NextPolicy]_vars

\* The audit trail under concurrent CONNECT requests, with no gate attached
\* and the operator denying domains for the session.
InitAudit == Init /\ unknown_action = "pending" /\ ~gate_attached

NextAudit ==
  \/ \E h \in AuditThreads, host \in Hosts : Accept(h, host, "CONNECT")
  \/ \E h \in AuditThreads : EnforceCheck(h)
  \/ \E h \in AuditThreads : EnforceLog(h)
  \/ \E h \in AuditThreads : RespondBlocked(h)
  \/ \E o \in Operators, d \in DecideDomains : SessionDeny(o, d)

SpecAudit == InitAudit /\ [][NextAudit]_vars

\* An audit log that earlier requests have filled with n entries; the port
\* tells the entries apart.
AuditPrefill(n) ==
  [i \in 1..n |-> [domain |-> D_b, port |-> i, method |-> "CONNECT", decision |-> DENY]]

\* The audit trail close to its cap.
InitAuditCap ==
  /\ InitPolicyAndGate
  /\ ~gate_attached
  /\ \E n \in {AuditCap - 2, AuditCap - 1, AuditCap} : audit_log = AuditPrefill(n)
  /\ alert_history = <<>>
  /\ InitOutside

NextAuditCap ==
  \/ \E h \in AuditThreads, host \in Hosts : Accept(h, host, "CONNECT")
  \/ \E h \in AuditThreads : EnforceCheck(h)
  \/ \E h \in AuditThreads : EnforceLog(h)
  \/ \E h \in AuditThreads : RespondBlocked(h)

SpecAuditCap == InitAuditCap /\ [][NextAuditCap]_vars

\* An alerts.log of n alerts after a line that is not JSON and a blank one.
AlertFile(n) ==
  [i \in 1..(n + 2) |->
     IF i = 1 THEN [kind |-> "text", value |-> <<"{", "o", "o", "p", "s">>]
     ELSE IF i = 2 THEN [kind |-> "text", value |-> <<>>]
     ELSE [kind |-> "json",
           value |-> [severity |-> "INFO", source |-> <<"s", "t", "a", "t", "s">>,
                      message |-> <<"o", "l", "d">>, timestamp |-> 0]]]

Src_egress == <<"e", "g", "r", "e", "s", "s">>

Src_logs == <<"l", "o", "g", "s">>

Msg_blocked == <<"B", "l", "o", "c", "k", "e", "d", ":", " ", "e", "v", "i", "l", ".", "i", "o">>

\* AlertDispatcher.__init__ on a data directory whose alerts.log is close
\* to the history cap, the reading going through or raising OSError before
\* the last line; then concurrent fire calls whose sinks work.
InitAlertCap ==
  /\ InitPolicyAndGate
  /\ unknown_action = "pending"
  /\ ~gate_attached
  /\ audit_log = <<>>
  /\ \E n \in {AlertCap - 1, AlertCap, AlertCap + 2} : alert_file = AlertFile(n)
  /\ \E read_fails \in BOOLEAN :
        alert_history = _load_history(alert_file, read_fails, Len(alert_file) - 1)
  /\ clock = 0
  /\ socketio = FALSE
  /\ firing = [t \in AlertThreads |-> IdleFire]
  /\ scanner = IdleScanner
  /\ monitor = IdleMonitor

NextAlertCap ==
  \/ \E t \in AlertThreads, source \in {Src_egress, Src_logs} :
        FireCall(t, "INFO", source, Msg_blocked)
  \/ \E t \in AlertThreads : FireAppend(t)
  \/ \E t \in AlertThreads : FireWriteLog(t, "ok")
  \/ \E t \in AlertThreads : FirePrint(t, "ok")
  \/ \E t \in AlertThreads : FireWebsocket(t, "ok")

SpecAlertCap == InitAlertCap /\ [][NextAlertCap]_vars

\* Concurrent fire calls while time passes; every sink works.
InitAlertOrder == Init /\ unknown_action = "pending" /\ ~gate_attached

NextAlertOrder ==
  \/ \E t \in AlertThreads : FireCall(t, "INFO", Src_egress, Msg_blocked)
  \/ Tick
  \/ \E t \in AlertThreads : FireAppend(t)
  \/ \E t \in AlertThreads : FireWriteLog(t, "ok")
  \/ \E t \in AlertThreads : FirePrint(t, "ok")
  \/ \E t \in AlertThreads : FireWebsocket(t, "ok")

SpecAlertOrder == InitAlertOrder /\ [][NextAlertOrder]_vars

\* Messages and sources given to fire: plain ones, one of shell
\* metacharacters, one of terminal markup, and long ones around the length
\* limit of the notification, with and without characters to remove.
Msg_shell == <<"$", "(", "c", "a", "l", "c", ")", "'", ";", "x", "|", "&">>

Msg_markup == <<"[", "/", "r", "e", "d", "]">>

Msg_long(n, c, d) == [i \in 1..n |-> IF i % 2 = 0 THEN c ELSE d]

FireMessages ==
  {<<>>, Msg_blocked, Msg_shell, Msg_markup,
   Msg_long(ToastMaxLen, "a", "b"), Msg_long(ToastMaxLen + 1, "a", "b"),
   Msg_long(ToastMaxLen + 100, "$", "b"), Msg_long(2 * ToastMaxLen + 50, "'", "c")}

Src_quoted == <<"x", "'", ";", "y">>

FireSources == {Src_egress, Src_quoted}

\* The one thread calling fire in the specification of the sinks.
FireCallers == {1}

\* One fire call with sinks that work or fail.
InitAlerts ==
  /\ InitPolicyAndGate
  /\ unknown_action = "pending"
  /\ ~gate_attached
  /\ audit_log = <<>>
  /\ alert_history = <<>>
  /\ alert_file = <<>>
  /\ clock = 0
  /\ socketio \in BOOLEAN
  /\ firing = [t \in AlertThreads |-> IdleFire]
  /\ scanner = IdleScanner
  /\ monitor = IdleMonitor

NextAlerts ==
  \E t \in FireCallers :
    \/ \E severity \in {"INFO", "CRITICAL"}, source \in FireSources,
          message \in FireMessages : FireCall(t, severity, source, message)
    \/ FireAppend(t)
    \/ \E outcome \in {"ok", "OSError"} : FireWriteLog(t, outcome)
    \/ \E outcome \in {"ok", "MarkupError"} : FirePrint(t, outcome)
    \/ \E outcome \in {"ok", "Exception"} : FireWebsocket(t, outcome)
    \/ \E outcome \in {"ok", "FileNotFoundError", "PermissionError"} :
          FireToast(t, outcome)

SpecAlerts == InitAlerts /\ [][NextAlerts]_vars

\* ------------------------------------------------------------------------
\* SecurityMonitor: the six watcher methods, statement by statement
\* ------------------------------------------------------------------------

\* What a step of a watcher thread leaves alone.
monitor_frame ==
  <<allowed, session_approved, session_denied, audit_log, unknown_action,
    policy_file, pending, requests, gate_history, gate_lock, gate_attached,
    proxy, human, alert_file, clock, socketio, firing, scanner>>

\* Thread i runs the watcher of this channel and is at this statement.
Watching(i, channel, pc) ==
  /\ i \in DOMAIN monitor.spawned
  /\ monitor.spawned[i].alive
  /\ monitor.spawned[i].channel = channel
  /\ monitor.spawned[i].pc = pc

\* The watchers that poll in a loop, and the timeout of the wait that ends
\* each round of theirs.
PollingChannels == {"stats", "processes", "network", "health"}

SleepSeconds(channel) ==
  CASE channel = "stats" -> 2
    [] channel = "processes" -> 15
    [] OTHER -> 30

\* The thread ends: its method returns, or an exception leaves it.
Ended(thread, how) == [thread EXCEPT !.alive = FALSE, !.pc = how]

\* The thread enters _sleep_interruptible(seconds).
Sleeping(thread, seconds) ==
  [thread EXCEPT !.pc = "sleep", !.wake = monitor.now + seconds,
                 !.batch = <<>>, !.item = <<>>]

\* Time passes.
MaxTicks == 4

TimePasses(seconds) ==
  /\ monitor.now + seconds <= 100 + (MaxTicks * seconds)
  /\ monitor' = [monitor EXCEPT !.now = @ + seconds]
  /\ UNCHANGED <<alert_history, monitor_frame>>

\* The head of the loop without the test of the paused flag.
WatcherLoop_ignores_paused(i) ==
  /\ \E channel \in PollingChannels : Watching(i, channel, "loop")
  /\ LET thread == monitor.spawned[i]
     IN  monitor' =
           [monitor EXCEPT !.spawned[i] =
              IF monitor.stop_event THEN Ended(thread, "returned")
              ELSE [thread EXCEPT !.pc = "poll"]]
  /\ UNCHANGED <<alert_history, monitor_frame>>

\* The head of a polling watcher's loop: `while not self._should_stop()`,
\* then `if self._is_paused()` with its wait.
WatcherLoop(i) ==
  /\ \E channel \in PollingChannels : Watching(i, channel, "loop")
  /\ LET thread == monitor.spawned[i]
     IN  monitor' =
           [monitor EXCEPT !.spawned[i] =
              IF monitor.stop_event THEN Ended(thread, "returned")
              ELSE IF monitor.paused THEN Sleeping(thread, SleepSeconds(thread.channel))
              ELSE [thread EXCEPT !.pc = "poll"]]
  /\ UNCHANGED <<alert_history, monitor_frame>>

\* _sleep_interruptible: _stop_event.wait(timeout) returns True as soon as
\* the event is set, and False once the timeout has elapsed; wake holds the
\* time at which it elapses.
WatcherSleep(i) ==
  /\ \E channel \in PollingChannels : Watching(i, channel, "sleep")
  /\ LET thread == monitor.spawned[i]
     IN  /\ monitor.stop_event \/ monitor.now >= thread.wake
         /\ monitor' =
              [monitor EXCEPT !.spawned[i] =
                 IF monitor.stop_event THEN Ended(thread, "returned")
                 ELSE [thread EXCEPT !.pc = "loop", !.wake = 0]]
  /\ UNCHANGED <<alert_history, monitor_frame>>

\* `except Exception` of a watcher: fire WARNING "monitor". In a polling
\* watcher the handler is inside the loop and the closing wait follows; in
\* _watch_logs and _watch_events it is outside the loop and the method
\* returns. fire may raise after it has recorded the alert, and nothing
\* catches that.
WatcherExcept(i, raised) ==
  /\ \E channel \in Channels : Watching(i, channel, "except")
  /\ LET thread == monitor.spawned[i]
     IN  /\ fire("WARNING", "monitor", [text |-> "watcher error", channel |-> thread.channel])
         /\ monitor' =
              [monitor EXCEPT !.spawned[i] =
                 IF raised THEN Ended(thread, "raised")
                 ELSE IF thread.channel \in PollingChannels
                   THEN Sleeping(thread, SleepSeconds(thread.channel))
                 ELSE Ended(thread, "returned")]
  /\ UNCHANGED monitor_frame

\* ---- _watch_stats ----

MEMORY_ALERT_COOLDOWN == 60

\* The memory check that follows the CPU check: where the thread goes.
MemoryCheck(thread, stats, now) ==
  IF /\ stats.memory_percent > monitor.memory_threshold
     /\ now - monitor.last_memory_alert >= MEMORY_ALERT_COOLDOWN
    THEN [thread EXCEPT !.pc = "memory_fire", !.item = stats]
    ELSE Sleeping(thread, 2)

\* memory_log notes the time of the first sample above the memory
\* threshold.
SampleNoted(outcome, stats, after) ==
  IF /\ outcome = "stats"
     /\ stats.memory_percent > monitor.memory_threshold
     /\ monitor.memory_log.over_at = <<>>
    THEN [after EXCEPT !.memory_log.over_at = <<monitor.now>>]
    ELSE after

\* One round of _watch_stats up to its first alert: stats_snapshot, which
\* returns None or a snapshot or raises, then the CPU check.
StatsPoll(i, outcome, stats) ==
  /\ Watching(i, "stats", "poll")
  /\ LET thread == monitor.spawned[i]
         now == monitor.now
         since == monitor.cpu_high_since
     IN  monitor' = SampleNoted(outcome, stats,
           CASE outcome = "None" ->
                  [monitor EXCEPT !.spawned[i] = Sleeping(thread, 5)]
             [] outcome = "DockerError" ->
                  [monitor EXCEPT !.spawned[i] = Sleeping(thread, 2)]
             [] outcome = "Exception" ->
                  [monitor EXCEPT !.spawned[i].pc = "except"]
             [] outcome = "stats" /\ stats.cpu_percent > monitor.cpu_threshold ->
                  IF since = <<>>
                    THEN [monitor EXCEPT !.cpu_high_since = <<now>>,
                                         !.spawned[i] = MemoryCheck(thread, stats, now)]
                  ELSE IF now - since[1] >= monitor.cpu_sustain_seconds
                    THEN [monitor EXCEPT !.spawned[i].pc = "cpu_fire",
                                         !.spawned[i].item = stats]
                  ELSE [monitor EXCEPT !.spawned[i] = MemoryCheck(thread, stats, now)]
             [] OTHER ->
                  [monitor EXCEPT !.cpu_high_since = <<>>,
                                  !.cpu_log.low_at = <<now>>,
                                  !.spawned[i] = MemoryCheck(thread, stats, now)])
  /\ UNCHANGED <<alert_history, monitor_frame>>

\* The CPU alert: fire WARNING "stats", then `self._cpu_high_since = now`
\* and the memory check. When fire raises, the assignment is skipped.
StatsCpuFire(i, raised) ==
  /\ Watching(i, "stats", "cpu_fire")
  /\ LET thread == monitor.spawned[i]
         now == monitor.now
         last == monitor.cpu_log.fired_at
         logged == [monitor.cpu_log EXCEPT
                      !.fired_at = <<now>>,
                      !.gap = IF last = <<>> THEN <<>> ELSE <<now - last[1]>>]
     IN  /\ fire("WARNING", "stats",
                 [text |-> "CPU at", cpu_percent |-> thread.item.cpu_percent,
                  seconds |-> monitor.cpu_sustain_seconds])
         /\ monitor' =
              IF raised
                THEN [monitor EXCEPT !.cpu_log = logged, !.spawned[i].pc = "except"]
                ELSE [monitor EXCEPT !.cpu_log = logged, !.cpu_high_since = <<now>>,
                                     !.spawned[i] = MemoryCheck(thread, thread.item, now)]
  /\ UNCHANGED monitor_frame

\* The memory alert: fire WARNING "stats", then
\* `self._last_memory_alert = now` and the closing wait.
StatsMemoryFire(i, raised) ==
  /\ Watching(i, "stats", "memory_fire")
  /\ LET thread == monitor.spawned[i]
         now == monitor.now
         last == monitor.memory_log.fired_at
         logged == [monitor.memory_log EXCEPT
                      !.fired_at = <<now>>,
                      !.gap = IF last = <<>> THEN <<>> ELSE <<now - last[1]>>]
     IN  /\ fire("WARNING", "stats",
                 [text |-> "Memory at", memory_percent |-> thread.item.memory_percent])
         /\ monitor' =
              IF raised
                THEN [monitor EXCEPT !.memory_log = logged, !.spawned[i].pc = "except"]
                ELSE [monitor EXCEPT !.memory_log = logged, !.last_memory_alert = now,
                                     !.spawned[i] = Sleeping(thread, 2)]
  /\ UNCHANGED monitor_frame

\* ---- _watch_processes and _auto_pause ----

SUSPICIOUS_PROCESSES ==
  {<<"s", "h">>, <<"b", "a", "s", "h">>, <<"d", "a", "s", "h">>,
   <<"z", "s", "h">>, <<"f", "i", "s", "h">>, <<"c", "s", "h">>,
   <<"t", "c", "s", "h">>, <<"p", "y", "t", "h", "o", "n">>,
   <<"p", "y", "t", "h", "o", "n", "3">>, <<"p", "e", "r", "l">>,
   <<"r", "u", "b", "y">>, <<"p", "h", "p">>, <<"l", "u", "a">>,
   <<"n", "c">>, <<"n", "c", "a", "t">>, <<"n", "m", "a", "p">>,
   <<"s", "o", "c", "a", "t">>, <<"t", "e", "l", "n", "e", "t">>,
   <<"g", "c", "c">>, <<"c", "c">>, <<"m", "a", "k", "e">>, <<"l", "d">>}

\* proc.get("CMD", proc.get("COMMAND", "")) of one row of get_top.
ProcCmd(proc) ==
  IF "CMD" \in DOMAIN proc THEN proc["CMD"]
  ELSE IF "COMMAND" \in DOMAIN proc THEN proc["COMMAND"]
  ELSE <<>>

\* cmd.split(): the words of cmd, here the first one only (<<>> when cmd has
\* no word, where cmd.split()[0] raises IndexError).
FirstWord(cmd) ==
  LET starts == {j \in DOMAIN cmd : cmd[j] \notin WsChars}
      first == CHOOSE j \in starts : \A h \in starts : j <= h
      word_chars == {cmd[j] : j \in DOMAIN cmd} \ WsChars
  IN  IF starts = {} THEN <<>>
      ELSE SubSeq(cmd, first, first + Run(cmd, first, word_chars) - 1)

\* cmd.split()[0].split("/")[-1]: what follows the last "/" of the first word.
base_cmd(cmd) ==
  LET word == FirstWord(cmd)
      slashes == {j \in DOMAIN word : word[j] = "/"}
      last == IF slashes = {} THEN 0
              ELSE CHOOSE j \in slashes : \A h \in slashes : h <= j
  IN  SubSeq(word, last + 1, Len(word))

\* dm.get_top(), which returns the rows or raises.
ProcessesPoll(i, outcome, processes) ==
  /\ Watching(i, "processes", "poll")
  /\ LET thread == monitor.spawned[i]
         listed == IF outcome \in {"DockerError", "Exception"} THEN {}
                   ELSE {ProcCmd(processes[j]) : j \in DOMAIN processes}
     IN  monitor' =
           [monitor EXCEPT
              !.dm.paused_for = @ \cap listed,
              !.spawned[i] =
                CASE outcome = "DockerError" -> Sleeping(thread, 15)
                  [] outcome = "Exception" -> [thread EXCEPT !.pc = "except"]
                  [] OTHER -> [thread EXCEPT !.pc = "each", !.batch = processes, !.k = 1]]
  /\ UNCHANGED <<alert_history, monitor_frame>>

\* `for proc in processes`: the next row, its base_cmd and the membership
\* test; after the last row the closing wait.
ProcessesEach(i) ==
  /\ Watching(i, "processes", "each")
  /\ LET thread == monitor.spawned[i]
         cmd == ProcCmd(thread.batch[thread.k])
     IN  monitor' =
           [monitor EXCEPT !.spawned[i] =
              IF thread.k > Len(thread.batch) THEN Sleeping(thread, 15)
              ELSE IF cmd # <<>> /\ FirstWord(cmd) = <<>>
                THEN [thread EXCEPT !.pc = "except"]
              ELSE IF cmd # <<>> /\ base_cmd(cmd) \in SUSPICIOUS_PROCESSES
                THEN [thread EXCEPT !.pc = "critical_fire", !.item = cmd]
              ELSE [thread EXCEPT !.k = @ + 1]]
  /\ UNCHANGED <<alert_history, monitor_frame>>

\* The CRITICAL alert of _watch_processes ("processes") and of _watch_health
\* ("health"); _auto_pause is called next.
CriticalFire(i, raised) ==
  /\ \E channel \in {"processes", "health"} : Watching(i, channel, "critical_fire")
  /\ LET thread == monitor.spawned[i]
     IN  /\ fire("CRITICAL", thread.channel,
                 IF thread.channel = "processes"
                   THEN [text |-> "Suspicious process detected", cmd |-> thread.item]
                   ELSE [text |-> "Container unhealthy",
                         count |-> monitor.consecutive_unhealthy])
         /\ monitor' = [monitor EXCEPT !.spawned[i].pc =
                          IF raised THEN "except" ELSE "auto_pause"]
  /\ UNCHANGED monitor_frame

\* _auto_pause has returned: the next row of the process list, or the
\* closing wait of _watch_health.
AfterAutoPause(thread) ==
  IF thread.channel = "processes"
    THEN [thread EXCEPT !.pc = "each", !.k = @ + 1, !.item = <<>>]
    ELSE Sleeping(thread, 30)

\* _auto_pause: return when the profile has auto_pause_on_critical off, else
\* self.dm.pause(). DockerManager.pause raises RuntimeError unless the
\* container is running, and container.pause() may raise APIError.
AutoPause(i, outcome) ==
  /\ \E channel \in {"processes", "health"} : Watching(i, channel, "auto_pause")
  /\ outcome = "RuntimeError" <=> monitor.dm.status # "running"
  /\ LET thread == monitor.spawned[i]
         called == [monitor.dm EXCEPT
                      !.pause_calls = @ + 1,
                      !.paused_for = IF thread.channel = "processes"
                                       THEN @ \cup {thread.item} ELSE @,
                      !.last_pause = <<[status |-> monitor.dm.status,
                                        again |-> thread.item \in monitor.dm.paused_for]>>]
     IN  monitor' =
           IF ~monitor.profile.auto_pause_on_critical
             THEN [monitor EXCEPT !.spawned[i] = AfterAutoPause(thread)]
           ELSE IF outcome = "ok"
             THEN [monitor EXCEPT !.dm = [called EXCEPT !.status = "paused",
                                                        !.pause_returned = @ + 1],
                                  !.spawned[i].pc = "frozen_fire"]
           ELSE [monitor EXCEPT !.dm = called,
                                !.spawned[i].pc = "failed_fire",
                                !.spawned[i].item = outcome]
  /\ UNCHANGED <<alert_history, monitor_frame>>

\* _auto_pause after a pause that returned: fire CRITICAL "auto-pause". The
\* call is inside the try block, so when fire raises, the handler below runs.
AutoPauseFrozenFire(i, raised) ==
  /\ \E channel \in {"processes", "health"} : Watching(i, channel, "frozen_fire")
  /\ LET thread == monitor.spawned[i]
     IN  /\ fire("CRITICAL", "auto-pause", [text |-> "Container auto-frozen"])
         /\ monitor' =
              IF raised
                THEN [monitor EXCEPT !.spawned[i].pc = "failed_fire",
                                     !.spawned[i].item = "fire"]
                ELSE [monitor EXCEPT !.spawned[i] = AfterAutoPause(thread)]
  /\ UNCHANGED monitor_frame

\* _auto_pause, `except Exception as e`: fire WARNING "auto-pause". When this
\* fire raises, the exception leaves _auto_pause.
AutoPauseFailedFire(i, raised) ==
  /\ \E channel \in {"processes", "health"} : Watching(i, channel, "failed_fire")
  /\ LET thread == monitor.spawned[i]
     IN  /\ fire("WARNING", "auto-pause",
                 [text |-> "Failed to auto-pause", e |-> thread.item])
         /\ monitor' =
              IF raised
                THEN [monitor EXCEPT !.spawned[i].pc = "except"]
                ELSE [monitor EXCEPT !.spawned[i] = AfterAutoPause(thread)]
  /\ UNCHANGED monitor_frame

\* ---- _watch_health ----

\* An alert at every "unhealthy" value.
HealthAlertDue_at_first(count) == count >= 1

\* `if self._consecutive_unhealthy >= 2`
HealthAlertDue(count) == count >= 2

\* dm.get_health(), which returns a value or raises, and the counting of
\* consecutive "unhealthy" values.
HealthPoll(i, outcome, health) ==
  /\ Watching(i, "health", "poll")
  /\ LET thread == monitor.spawned[i]
         count == monitor.consecutive_unhealthy + 1
         log == Append(monitor.health_log, health)
         logged == IF Len(log) > 2 THEN Tail(log) ELSE log
     IN  monitor' =
           CASE outcome = "DockerError" ->
                  [monitor EXCEPT !.spawned[i] = Sleeping(thread, 30)]
             [] outcome = "Exception" ->
                  [monitor EXCEPT !.spawned[i].pc = "except"]
             [] outcome = "value" /\ health = "unhealthy" ->
                  [monitor EXCEPT !.consecutive_unhealthy = count,
                                  !.health_log = logged,
                                  !.spawned[i] =
                                     IF HealthAlertDue(count)
                                       THEN [thread EXCEPT !.pc = "critical_fire"]
                                       ELSE Sleeping(thread, 30)]
             [] OTHER ->
                  [monitor EXCEPT !.consecutive_unhealthy = 0,
                                  !.health_log = logged,
                                  !.spawned[i] = Sleeping(thread, 30)]
  /\ UNCHANGED <<alert_history, monitor_frame>>

\* ---- _watch_network ----

\* remote.rsplit(":", 1)[0] when remote has a ":", else remote; then
\* strip("[]").
RemoteAddr(remote) ==
  LET colons == {j \in DOMAIN remote : remote[j] = ":"}
      last == CHOOSE j \in colons : \A h \in colons : h <= j
      addr == IF colons = {} THEN remote ELSE SubSeq(remote, 1, last - 1)
      inner == {j \in DOMAIN addr : addr[j] \notin {"[", "]"}}
      lo == CHOOSE j \in inner : \A h \in inner : j <= h
      hi == CHOOSE j \in inner : \A h \in inner : h <= j
  IN  IF inner = {} THEN <<>> ELSE SubSeq(addr, lo, hi)

whitelisted_addrs ==
  {<<"1", "2", "7", ".", "0", ".", "0", ".", "1">>,
   <<"0", ".", "0", ".", "0", ".", "0">>,
   <<":", ":", "1">>,
   <<":", ":">>}

\* dm.get_status(), then dm.exec_run("ss -tunp"); remotes are the fifth
\* fields of the lines after the first that have five fields or more.
NetworkPoll(i, outcome, remotes) ==
  /\ Watching(i, "network", "poll")
  /\ LET thread == monitor.spawned[i]
         log == monitor.network_log
     IN  monitor' =
           CASE outcome = "Exception" -> [monitor EXCEPT !.spawned[i].pc = "except"]
             [] outcome = "DockerError" \/ monitor.dm.status # "running" ->
                  [monitor EXCEPT !.spawned[i] = Sleeping(thread, 30)]
             [] OTHER ->
                  [monitor EXCEPT
                     !.spawned[i] = [thread EXCEPT !.pc = "each", !.batch = remotes, !.k = 1],
                     !.network_log =
                        [reported |-> log.reported \cup SeqToSet(remotes),
                         again |-> log.again \cup (log.reported \cap SeqToSet(remotes))]]
  /\ UNCHANGED <<alert_history, monitor_frame>>

\* The loop body without the test against seen_remotes.
NetworkEach_without_seen(i) ==
  /\ Watching(i, "network", "each")
  /\ LET thread == monitor.spawned[i]
         remote == thread.batch[thread.k]
         addr == RemoteAddr(remote)
     IN  monitor' =
           [monitor EXCEPT !.spawned[i] =
              IF thread.k > Len(thread.batch) THEN Sleeping(thread, 30)
              ELSE IF addr \notin whitelisted_addrs /\ addr # <<"*">>
                THEN [thread EXCEPT !.pc = "network_fire", !.item = remote,
                                    !.seen = @ \cup {remote}]
              ELSE [thread EXCEPT !.k = @ + 1]]
  /\ UNCHANGED <<alert_history, monitor_frame>>

\* `for line in output.splitlines()[1:]`: the next remote and the test
\* against whitelisted_addrs, "*" and seen_remotes.
NetworkEach(i) ==
  /\ Watching(i, "network", "each")
  /\ LET thread == monitor.spawned[i]
         remote == thread.batch[thread.k]
         addr == RemoteAddr(remote)
     IN  monitor' =
           [monitor EXCEPT !.spawned[i] =
              IF thread.k > Len(thread.batch) THEN Sleeping(thread, 30)
              ELSE IF /\ addr \notin whitelisted_addrs
                      /\ addr # <<"*">>
                      /\ remote \notin thread.seen
                THEN [thread EXCEPT !.pc = "network_fire", !.item = remote,
                                    !.seen = @ \cup {remote}]
              ELSE [thread EXCEPT !.k = @ + 1]]
  /\ UNCHANGED <<alert_history, monitor_frame>>

NetworkFire(i, raised) ==
  /\ Watching(i, "network", "network_fire")
  /\ LET thread == monitor.spawned[i]
     IN  /\ fire("WARNING", "network",
                 [text |-> "New outbound connection to", remote |-> thread.item])
         /\ monitor' = [monitor EXCEPT !.spawned[i] =
                          IF raised THEN [thread EXCEPT !.pc = "except"]
                          ELSE [thread EXCEPT !.pc = "each", !.k = @ + 1, !.item = <<>>]]
  /\ UNCHANGED monitor_frame

\* ---- _watch_logs and _watch_events ----

\* The severities of LOG_PATTERNS, in the order of the list.
LOG_PATTERNS ==
  <<"CRITICAL", "CRITICAL", "CRITICAL", "WARNING", "WARNING", "CRITICAL",
    "CRITICAL", "WARNING", "WARNING", "WARNING", "WARNING", "WARNING">>

\* `for line in self.dm.get_logs(follow=True, tail=0)`: the thread waits in
\* the iterator until the stream delivers a line, ends or raises. Only when
\* a line has arrived does the body run: `if self._should_stop(): return`,
\* then the first pattern of LOG_PATTERNS that matches. A line is given by
\* the set of the patterns, by position, that re.search finds in it.
LogsNext(i, outcome, line) ==
  /\ Watching(i, "logs", "loop")
  /\ LET thread == monitor.spawned[i]
         first == CHOOSE p \in line : \A q \in line : p <= q
     IN  monitor' =
           [monitor EXCEPT !.spawned[i] =
              CASE outcome \in {"end", "DockerError"} -> Ended(thread, "returned")
                [] outcome = "Exception" -> [thread EXCEPT !.pc = "except"]
                [] outcome = "line" /\ monitor.stop_event -> Ended(thread, "returned")
                [] outcome = "line" /\ line # {} ->
                     [thread EXCEPT !.pc = "logs_fire", !.item = first]
                [] OTHER -> thread]
  /\ UNCHANGED <<alert_history, monitor_frame>>

LogsFire(i, raised) ==
  /\ Watching(i, "logs", "logs_fire")
  /\ LET thread == monitor.spawned[i]
     IN  /\ fire(LOG_PATTERNS[thread.item], "logs", [pattern |-> thread.item])
         /\ monitor' = [monitor EXCEPT !.spawned[i] =
                          IF raised THEN [thread EXCEPT !.pc = "except"]
                          ELSE [thread EXCEPT !.pc = "loop", !.item = <<>>]]
  /\ UNCHANGED monitor_frame

CRITICAL_EVENTS == {"die", "oom", "kill"}

WARNING_EVENTS == {"restart"}

\* event.get("Action", event.get("status", ""))
EventAction(event) ==
  IF "Action" \in DOMAIN event THEN event["Action"]
  ELSE IF "status" \in DOMAIN event THEN event["status"]
  ELSE ""

\* `for event in self.dm.events_stream()`: as in _watch_logs, the stop event
\* is read only when an event has arrived.
EventsNext(i, outcome, event) ==
  /\ Watching(i, "events", "loop")
  /\ LET thread == monitor.spawned[i]
         action == EventAction(event)
     IN  monitor' =
           [monitor EXCEPT !.spawned[i] =
              CASE outcome \in {"end", "DockerError"} -> Ended(thread, "returned")
                [] outcome = "Exception" -> [thread EXCEPT !.pc = "except"]
                [] outcome = "event" /\ monitor.stop_event -> Ended(thread, "returned")
                [] outcome = "event"
                     /\ action \in CRITICAL_EVENTS \cup WARNING_EVENTS \cup {"start"} ->
                     [thread EXCEPT !.pc = "events_fire", !.item = action]
                [] OTHER -> thread]
  /\ UNCHANGED <<alert_history, monitor_frame>>

EventsFire(i, raised) ==
  /\ Watching(i, "events", "events_fire")
  /\ LET thread == monitor.spawned[i]
         action == thread.item
     IN  /\ fire(IF action \in CRITICAL_EVENTS THEN "CRITICAL"
                 ELSE IF action \in WARNING_EVENTS THEN "WARNING" ELSE "INFO",
                 "events", [text |-> "Container event", action |-> action])
         /\ monitor' = [monitor EXCEPT !.spawned[i] =
                          IF raised THEN [thread EXCEPT !.pc = "except"]
                          ELSE [thread EXCEPT !.pc = "loop", !.item = <<>>]]
  /\ UNCHANGED monitor_frame

\* The profiles explored: the default one, one without watchers, and the
\* ones with the process watchdog or the network auditor alone.
NoWatchers ==
  [resource_limits |-> FALSE, process_watchdog |-> FALSE, network_auditor |-> FALSE,
   log_scanner |-> FALSE, auto_pause_on_critical |-> TRUE]

MonitorProfiles ==
  {DefaultProfile, NoWatchers,
   [NoWatchers EXCEPT !.process_watchdog = TRUE],
   [NoWatchers EXCEPT !.network_auditor = TRUE]}

\* The monitor under calls of its methods by one controlling thread.
InitMonitor ==
  /\ InitPolicyAndGate
  /\ unknown_action = "pending"
  /\ ~gate_attached
  /\ audit_log = <<>>
  /\ alert_history = <<>>
  /\ alert_file = <<>>
  /\ clock = 0
  /\ socketio = FALSE
  /\ firing = [t \in AlertThreads |-> IdleFire]
  /\ scanner = IdleScanner
  /\ \E profile \in MonitorProfiles : monitor = [IdleMonitor EXCEPT !.profile = profile]

NextMonitor ==
  \/ MonitorStart
  \/ MonitorStop
  \/ MonitorStopped
  \/ \E i \in 1..Len(monitor.spawned) : WatcherExit(i)
  \/ PauseMonitoring
  \/ ResumeMonitoring

SpecMonitor == InitMonitor /\ [][NextMonitor]_vars

\* start on an idle monitor, which is one whose _threads is empty: a new
\* one, or one whose stop has returned. Every profile is explored.
AllProfiles ==
  [resource_limits : BOOLEAN, process_watchdog : BOOLEAN, network_auditor : BOOLEAN,
   log_scanner : BOOLEAN, auto_pause_on_critical : BOOLEAN]

StartIdle == monitor.threads = <<>> /\ MonitorStart

InitSelect ==
  /\ InitPolicyAndGate
  /\ unknown_action = "pending"
  /\ ~gate_attached
  /\ audit_log = <<>>
  /\ alert_history = <<>>
  /\ alert_file = <<>>
  /\ clock = 0
  /\ socketio = FALSE
  /\ firing = [t \in AlertThreads |-> IdleFire]
  /\ scanner = IdleScanner
  /\ \E profile \in AllProfiles : monitor = [IdleMonitor EXCEPT !.profile = profile]

NextSelect ==
  \/ StartIdle
  \/ MonitorStop
  \/ MonitorStopped
  \/ PauseMonitoring
  \/ ResumeMonitoring

SpecSelect == InitSelect /\ [][NextSelect]_vars

\* A monitor constructed with one of these profiles and this
\* cpu_sustain_seconds, not started yet.
InitWatchers(profiles, sustain) ==
  /\ InitPolicyAndGate
  /\ unknown_action = "pending"
  /\ ~gate_attached
  /\ audit_log = <<>>
  /\ alert_history = <<>>
  /\ alert_file = <<>>
  /\ clock = 0
  /\ socketio = FALSE
  /\ firing = [t \in AlertThreads |-> IdleFire]
  /\ scanner = IdleScanner
  /\ \E profile \in profiles :
       monitor = [IdleMonitor EXCEPT !.profile = profile,
                                     !.cpu_sustain_seconds = sustain]

\* start is called once.
StartOnce == monitor.starts = 0 /\ MonitorStart

\* stop is called on the started monitor.
StopStarted == monitor.starts > 0 /\ MonitorStop

\* The profiles that select one of the four optional watchers each.
OneChannelProfiles ==
  {[NoWatchers EXCEPT !.resource_limits = TRUE],
   [NoWatchers EXCEPT !.process_watchdog = TRUE],
   [NoWatchers EXCEPT !.network_auditor = TRUE],
   [NoWatchers EXCEPT !.log_scanner = TRUE]}

\* The threads that one start creates from such a profile.
WatcherIds == 1..3

\* A quiet container: each poll returns and nothing it returns raises an
\* alert; the log and event streams deliver items when they have some.
QuietPoll(i) ==
  \/ StatsPoll(i, "stats", [cpu_percent |-> 10, memory_percent |-> 10])
  \/ ProcessesPoll(i, "rows", <<>>)
  \/ ProcessesEach(i)
  \/ NetworkPoll(i, "output", <<>>)
  \/ NetworkEach(i)
  \/ HealthPoll(i, "value", "healthy")

QuietStream(i) ==
  \/ LogsNext(i, "line", {})
  \/ EventsNext(i, "event", [Action |-> "exec_start"])

InitStop == InitWatchers(OneChannelProfiles, 30)

NextStop ==
  \/ StartOnce
  \/ StopStarted
  \/ MonitorStopped
  \/ PauseMonitoring
  \/ ResumeMonitoring
  \/ TimePasses(30)
  \/ \E i \in WatcherIds : WatcherLoop(i)
  \/ \E i \in WatcherIds : WatcherSleep(i)
  \/ \E i \in WatcherIds : QuietPoll(i)
  \/ \E i \in WatcherIds : QuietStream(i)

\* Every step of a watcher that is up to the watcher is taken in the end: a
\* thread that can run does run, a call to the container returns, and the
\* joins of stop return. When the streams deliver is up to the container.
SpecStop ==
  /\ InitStop
  /\ [][NextStop]_vars
  /\ WF_vars(MonitorStopped)
  /\ \A i \in WatcherIds :
       WF_vars(WatcherLoop(i)) /\ WF_vars(WatcherSleep(i)) /\ WF_vars(QuietPoll(i))

\* The process watchdog with the lists that get_top may return: no row, a
\* node process, a shell under /bin, both, and a row whose CMD is blank.
Cmd_node == <<"n", "o", "d", "e", " ", "a", "p", "p", ".", "j", "s">>

Cmd_sh == <<"/", "b", "i", "n", "/", "s", "h">>

TopLists ==
  {<<>>, <<[CMD |-> Cmd_node]>>, <<[CMD |-> Cmd_sh]>>,
   <<[CMD |-> Cmd_node], [COMMAND |-> Cmd_sh]>>}

WatchdogProfiles == {[NoWatchers EXCEPT !.process_watchdog = TRUE]}

InitWatchdog == InitWatchers(WatchdogProfiles, 30)

NextWatchdog ==
  \/ StartOnce
  \/ TimePasses(15)
  \/ \E i \in WatcherIds : WatcherLoop(i)
  \/ \E i \in WatcherIds : WatcherSleep(i)
  \/ \E i \in WatcherIds, processes \in TopLists : ProcessesPoll(i, "rows", processes)
  \/ \E i \in WatcherIds : ProcessesEach(i)
  \/ \E i \in WatcherIds : CriticalFire(i, FALSE)
  \/ \E i \in WatcherIds, outcome \in {"ok", "RuntimeError"} : AutoPause(i, outcome)
  \/ \E i \in WatcherIds : AutoPauseFrozenFire(i, FALSE)
  \/ \E i \in WatcherIds : AutoPauseFailedFire(i, FALSE)

SpecWatchdog == InitWatchdog /\ [][NextWatchdog]_vars

\* _auto_pause with the flag on and off, a pause that returns or raises, and
\* alert sinks that may fail once _auto_pause is entered, during the first
\* poll of the process watchdog: get_top lists two shells.
AutoPauseProfiles ==
  {[NoWatchers EXCEPT !.process_watchdog = TRUE],
   [NoWatchers EXCEPT !.process_watchdog = TRUE, !.auto_pause_on_critical = FALSE]}

InitAutoPause == InitWatchers(AutoPauseProfiles, 30)

NextAutoPause ==
  \/ StartOnce
  \/ \E i \in WatcherIds : WatcherLoop(i)
  \/ \E i \in WatcherIds :
       ProcessesPoll(i, "rows", <<[CMD |-> Cmd_sh], [COMMAND |-> Cmd_sh]>>)
  \/ \E i \in WatcherIds : ProcessesEach(i)
  \/ \E i \in WatcherIds : CriticalFire(i, FALSE)
  \/ \E i \in WatcherIds, outcome \in {"ok", "RuntimeError", "APIError"} : AutoPause(i, outcome)
  \/ \E i \in WatcherIds, raised \in BOOLEAN : AutoPauseFrozenFire(i, raised)
  \/ \E i \in WatcherIds, raised \in BOOLEAN : AutoPauseFailedFire(i, raised)
  \/ \E i \in WatcherIds, raised \in BOOLEAN : WatcherExcept(i, raised)

SpecAutoPause == InitAutoPause /\ [][NextAutoPause]_vars

\* The stats watcher of a monitor constructed with cpu_sustain_seconds=4,
\* which is two rounds: samples at the CPU threshold and above it, memory
\* below its threshold, and alert sinks that may fail.
StatsProfiles == {[NoWatchers EXCEPT !.resource_limits = TRUE]}

InitStats == InitWatchers(StatsProfiles, 4)

NextStats ==
  \/ StartOnce
  \/ TimePasses(2)
  \/ \E i \in WatcherIds : WatcherLoop(i)
  \/ \E i \in WatcherIds : WatcherSleep(i)
  \/ \E i \in WatcherIds, cpu \in {80, 95} :
       StatsPoll(i, "stats", [cpu_percent |-> cpu, memory_percent |-> 50])
  \/ \E i \in WatcherIds, raised \in BOOLEAN : StatsCpuFire(i, raised)
  \/ \E i \in WatcherIds, raised \in BOOLEAN : WatcherExcept(i, raised)

SpecStats == InitStats /\ [][NextStats]_vars

\* The stats watcher with samples whose memory is above the threshold of 85
\* at every round, CPU below its threshold, rounds 2 or 30 seconds apart and
\* alert sinks that may fail.
MemorySamples == {[cpu_percent |-> 10, memory_percent |-> 90]}

InitMemory == InitWatchers(StatsProfiles, 30)

NextMemory ==
  \/ StartOnce
  \/ TimePasses(2)
  \/ TimePasses(30)
  \/ \E i \in WatcherIds : WatcherLoop(i)
  \/ \E i \in WatcherIds : WatcherSleep(i)
  \/ \E i \in WatcherIds, stats \in MemorySamples : StatsPoll(i, "stats", stats)
  \/ \E i \in WatcherIds, raised \in BOOLEAN : StatsMemoryFire(i, raised)
  \/ \E i \in WatcherIds, raised \in BOOLEAN : WatcherExcept(i, raised)

SpecMemory == InitMemory /\ [][NextMemory]_vars

\* pause_monitoring and resume_monitoring at any moment of a started or an
\* idle monitor whose container gives every watcher something to report: a
\* sample above the memory threshold, a shell in the process list, a remote
\* endpoint, and log lines and events that match, of which the streams
\* deliver MaxStreamed.
MaxStreamed == 2

Streamed ==
  Len(SelectSeq(alert_history, LAMBDA a : a.source \in {"logs", "events"}))

Remote_ext == <<"9", ".", "9", ".", "9", ".", "9", ":", "4", "4", "3">>

BusyPoll(i) ==
  \/ \E stats \in MemorySamples : StatsPoll(i, "stats", stats)
  \/ StatsMemoryFire(i, FALSE)
  \/ ProcessesPoll(i, "rows", <<[CMD |-> Cmd_sh]>>)
  \/ ProcessesEach(i)
  \/ CriticalFire(i, FALSE)
  \/ \E outcome \in {"ok", "RuntimeError"} : AutoPause(i, outcome)
  \/ AutoPauseFrozenFire(i, FALSE)
  \/ AutoPauseFailedFire(i, FALSE)
  \/ NetworkPoll(i, "output", <<Remote_ext>>)
  \/ NetworkEach(i)
  \/ NetworkFire(i, FALSE)
  \/ HealthPoll(i, "value", "healthy")

BusyStream(i) ==
  \/ Streamed < MaxStreamed /\ LogsNext(i, "line", {1})
  \/ LogsFire(i, FALSE)
  \/ Streamed < MaxStreamed /\ EventsNext(i, "event", [Action |-> "die"])
  \/ EventsFire(i, FALSE)

InitPause == InitWatchers(OneChannelProfiles, 30)

NextPause ==
  \/ StartOnce
  \/ PauseMonitoring
  \/ ResumeMonitoring
  \/ TimePasses(30)
  \/ \E i \in WatcherIds : WatcherLoop(i)
  \/ \E i \in WatcherIds : WatcherSleep(i)
  \/ \E i \in WatcherIds : BusyPoll(i)
  \/ \E i \in WatcherIds : BusyStream(i)

SpecPause == InitPause /\ [][NextPause]_vars

\* The network auditor over several polls: `ss` lists connections to two
\* outside endpoints, to the loopback addresses and to the wildcard
\* addresses, in IPv4 and IPv6 notation; the alert sinks may fail.
Remote_dns == <<"8", ".", "8", ".", "8", ".", "8", ":", "5", "3">>

Remote_lo == <<"1", "2", "7", ".", "0", ".", "0", ".", "1", ":", "8", "0">>

Remote_lo6 == <<"[", ":", ":", "1", "]", ":", "4", "4", "3">>

Remote_any4 == <<"0", ".", "0", ".", "0", ".", "0", ":", "*">>

Remote_any6 == <<"[", ":", ":", "]", ":", "*">>

Remote_star == <<"*", ":", "*">>

LocalRemotes == {Remote_lo, Remote_lo6, Remote_any4, Remote_any6, Remote_star}

RemoteLists ==
  {<<Remote_ext>>, <<Remote_ext, Remote_ext>>, <<Remote_lo, Remote_dns>>,
   <<Remote_lo6, Remote_any4>>, <<Remote_any6, Remote_star, Remote_ext>>}

InitNetwork == InitWatchers({[NoWatchers EXCEPT !.network_auditor = TRUE]}, 30)

NextNetwork ==
  \/ StartOnce
  \/ TimePasses(30)
  \/ \E i \in WatcherIds : WatcherLoop(i)
  \/ \E i \in WatcherIds : WatcherSleep(i)
  \/ \E i \in WatcherIds, remotes \in RemoteLists : NetworkPoll(i, "output", remotes)
  \/ \E i \in WatcherIds : NetworkEach(i)
  \/ \E i \in WatcherIds, raised \in BOOLEAN : NetworkFire(i, raised)
  \/ \E i \in WatcherIds, raised \in BOOLEAN : WatcherExcept(i, raised)

SpecNetwork == InitNetwork /\ [][NextNetwork]_vars

\* Each of the six watchers with a poll or a streamed item during which an
\* unexpected exception is raised, in the first round of the polling
\* watchers; the alert sinks work.
UnexpectedException(i) ==
  \/ StatsPoll(i, "Exception", <<>>)
  \/ ProcessesPoll(i, "Exception", <<>>)
  \/ NetworkPoll(i, "Exception", <<>>)
  \/ HealthPoll(i, "Exception", "")
  \/ LogsNext(i, "Exception", {})
  \/ EventsNext(i, "Exception", <<>>)

InitErrors == InitWatchers(OneChannelProfiles, 30)

NextErrors ==
  \/ StartOnce
  \/ StopStarted
  \/ MonitorStopped
  \/ \E i \in WatcherIds : WatcherLoop(i)
  \/ \E i \in WatcherIds : WatcherSleep(i)
  \/ \E i \in WatcherIds : QuietPoll(i)
  \/ \E i \in WatcherIds : QuietStream(i)
  \/ \E i \in WatcherIds : UnexpectedException(i)
  \/ \E i \in WatcherIds : WatcherExcept(i, FALSE)

SpecErrors == InitErrors /\ [][NextErrors]_vars

\* The health watcher over several checks: get_health returns one of the
\* values of Docker or None, or raises; the alert sinks may fail when the
\* watcher fires.
HealthValues == {"healthy", "unhealthy", "starting", "None"}

InitHealth == InitWatchers({[NoWatchers EXCEPT !.log_scanner = TRUE]}, 30)

NextHealth ==
  \/ StartOnce
  \/ TimePasses(30)
  \/ \E i \in WatcherIds : WatcherLoop(i)
  \/ \E i \in WatcherIds : WatcherSleep(i)
  \/ \E i \in WatcherIds, health \in HealthValues : HealthPoll(i, "value", health)
  \/ \E i \in WatcherIds, outcome \in {"DockerError", "Exception"} :
       HealthPoll(i, outcome, "")
  \/ \E i \in WatcherIds, raised \in BOOLEAN : CriticalFire(i, raised)
  \/ \E i \in WatcherIds, outcome \in {"ok", "RuntimeError"} : AutoPause(i, outcome)
  \/ \E i \in WatcherIds : AutoPauseFrozenFire(i, FALSE)
  \/ \E i \in WatcherIds : AutoPauseFailedFire(i, FALSE)
  \/ \E i \in WatcherIds, raised \in BOOLEAN : WatcherExcept(i, raised)

SpecHealth == InitHealth /\ [][NextHealth]_vars

\* Two threads that call add_permanent and remove_permanent on one engine
\* at the same time.
Savers == {"o1", "o2"}

InitPersist ==
  /\ allowed = LoadLines(InitialPolicyFile, <<>>, DEFAULT_BLOCKLIST).allowed
  /\ session_approved = {}
  /\ session_denied = {}
  /\ unknown_action = "pending"
  /\ policy_file = InitialPolicyFile
  /\ pending = <<>>
  /\ requests = <<>>
  /\ gate_history = <<>>
  /\ gate_lock = NoThread
  /\ gate_attached = TRUE
  /\ proxy = [h \in Handlers |-> IdleHandler]
  /\ human = [o \in Savers |-> IdleOperator]
  /\ audit_log = <<>>
  /\ alert_history = <<>>
  /\ InitOutside

NextPersist ==
  \E o \in Savers :
    \/ \E d \in PermanentDomains : AddPermanent(o, d)
    \/ \E d \in PermanentDomains : RemovePermanent(o, d)
    \/ SaveSnapshot(o)
    \/ SaveWrite(o)

SpecPersist == InitPersist /\ [][NextPersist]_vars

\* One thread that calls add_permanent and remove_permanent with domains,
\* with a wildcard pattern, and with entries that begin with "#" and "!".
Entry_hash == <<"#", "c", ".", "i", "o">>

Entry_bang == <<"!", "c", ".", "i", "o">>

ReloadEntries == PermanentDomains \cup PolicyPatterns \cup {Entry_hash, Entry_bang}

NextReload ==
  \E o \in Operators :
    \/ \E d \in ReloadEntries : AddPermanent(o, d)
    \/ \E d \in ReloadEntries : RemovePermanent(o, d)
    \/ SaveSnapshot(o)
    \/ SaveWrite(o)

SpecReload == InitPolicy /\ [][NextReload]_vars

\* Two operator threads that call session_approve and session_deny on the
\* policy and approve and deny on the gate, with the letters of a domain in
\* either case; each call of the policy is one locked block.
NextSession ==
  \E o \in Savers :
    \/ \E d \in PolicyDomains : SessionApprove(o, d)
    \/ \E d \in PolicyDomains : SessionDeny(o, d)
    \/ \E d \in PolicyDomains : GateApprove(o, d, FALSE)
    \/ \E d \in PermanentDomains : GateApprove(o, d, TRUE)
    \/ GateApproveSignal(o)
    \/ \E d \in PolicyDomains : GateDeny(o, d)
    \/ GateDenySignal(o)
    \/ SaveSnapshot(o)
    \/ SaveWrite(o)

SpecSession == InitPersist /\ [][NextSession]_vars

\* ------------------------------------------------------------------------
\* The three locks, one step per acquisition: ActionGate._lock,
\* EgressPolicy._lock and AlertDispatcher._lock
\* ------------------------------------------------------------------------

\* The holder of ActionGate._lock is gate_lock. A thread holds
\* EgressPolicy._lock or AlertDispatcher._lock while it is inside a `with
\* self._lock` block of the policy or of fire; threading.Lock admits one.
PolicyLockHandlers ==
  {h \in DOMAIN proxy : proxy[h].pc \in {"cd_locked", "la_locked", "la2_locked"}}

PolicyLockOperators == {o \in DOMAIN human : human[o].pc = "policy_locked"}

PolicyLockFree == PolicyLockHandlers = {} /\ PolicyLockOperators = {}

AlertLockHolders ==
  {h \in DOMAIN proxy : proxy[h].pc \in {"ra_notify_locked", "ra_log_locked", "fire_locked"}}

\* What the steps of a handler thread inside the policy or fire leave alone.
handler_frame ==
  <<outside_egress, allowed, session_approved, session_denied, unknown_action,
    policy_file, pending, requests, gate_history, gate_attached, human>>

\* _enforce is entered: check_domain(host) is about to take the policy lock.
EnforceCall(h, d) ==
  /\ proxy[h].pc = "idle"
  /\ proxy' = [proxy EXCEPT ![h] = [IdleHandler EXCEPT
                  !.pc = "cd_enter", !.host = d, !.port = 443, !.method = "CONNECT"]]
  /\ UNCHANGED <<handler_frame, audit_log, alert_history, gate_lock>>

\* `with self._lock` of check_domain and of log_attempt.
PolicyAcquire(h) ==
  /\ proxy[h].pc \in {"cd_enter", "la_enter", "la2_enter"}
  /\ PolicyLockFree
  /\ proxy' = [proxy EXCEPT ![h].pc =
                  CASE proxy[h].pc = "cd_enter" -> "cd_locked"
                    [] proxy[h].pc = "la_enter" -> "la_locked"
                    [] OTHER -> "la2_locked"]
  /\ UNCHANGED <<handler_frame, audit_log, alert_history, gate_lock>>

\* check_domain, locked block and return.
CheckDomainLocked(h) ==
  /\ proxy[h].pc = "cd_locked"
  /\ proxy' = [proxy EXCEPT ![h].decision = check_domain(proxy[h].host),
                            ![h].pc = "la_enter"]
  /\ UNCHANGED <<handler_frame, audit_log, alert_history, gate_lock>>

\* log_attempt, locked block; then _enforce calls request_approval when the
\* decision is PENDING and a gate is attached.
LogAttemptLocked(h) ==
  LET r == proxy[h]
  IN  /\ r.pc = "la_locked"
      /\ log_attempt(r.host, r.port, r.method, r.decision)
      /\ proxy' = [proxy EXCEPT ![h].pc =
                      IF r.decision = PENDING /\ gate_attached THEN "ra_enter" ELSE "done"]
      /\ UNCHANGED <<handler_frame, alert_history, gate_lock>>

\* A thread calls fire on its own, as the watchers of the monitor do.
FireEnter(h) ==
  /\ proxy[h].pc = "idle"
  /\ proxy' = [proxy EXCEPT ![h] = [IdleHandler EXCEPT !.pc = "fire_enter"]]
  /\ UNCHANGED <<handler_frame, audit_log, alert_history, gate_lock>>

\* `with self._lock` of fire: called from _notify_pending, where the caller
\* holds the gate lock, from _log_decision and from elsewhere.
AlertAcquire(h) ==
  /\ proxy[h].pc \in {"ra_notify", "ra_log", "fire_enter"}
  /\ AlertLockHolders = {}
  /\ proxy' = [proxy EXCEPT ![h].pc =
                  CASE proxy[h].pc = "ra_notify" -> "ra_notify_locked"
                    [] proxy[h].pc = "ra_log" -> "ra_log_locked"
                    [] OTHER -> "fire_locked"]
  /\ UNCHANGED <<handler_frame, audit_log, alert_history, gate_lock>>

\* fire inside _notify_pending: the locked block; the sinks follow without
\* the alert lock, the gate lock still held.
NotifyAppend(h) ==
  LET r == proxy[h]
  IN  /\ r.pc = "ra_notify_locked"
      /\ fire("WARNING", "egress", [text |-> "Approval needed",
                                    domain |-> requests[r.req].domain,
                                    port |-> requests[r.req].port])
      /\ proxy' = [proxy EXCEPT ![h].pc = "ra_notify_sinks"]
      /\ UNCHANGED <<handler_frame, audit_log, gate_lock>>

\* The first locked block of request_approval with req.wait inside it: the
\* gate lock is kept.
NotifyReturn_waits_in_block(h) ==
  /\ proxy[h].pc = "ra_notify_sinks"
  /\ gate_lock = h
  /\ proxy' = [proxy EXCEPT ![h].pc = "wait"]
  /\ UNCHANGED <<handler_frame, audit_log, alert_history, gate_lock>>

\* fire and _notify_pending return and the first locked block of
\* request_approval ends: the gate lock is released before req.wait.
NotifyReturn(h) ==
  /\ proxy[h].pc = "ra_notify_sinks"
  /\ gate_lock = h
  /\ gate_lock' = NoThread
  /\ proxy' = [proxy EXCEPT ![h].pc = "wait"]
  /\ UNCHANGED <<handler_frame, audit_log, alert_history>>

\* fire inside _log_decision; request_approval returns and _enforce goes on
\* to its second log_attempt.
DecisionAppend(h) ==
  LET r == proxy[h]
  IN  /\ r.pc = "ra_log_locked"
      /\ fire(IF r.approved THEN "INFO" ELSE "WARNING", "egress",
              [text |-> IF r.approved THEN "Egress APPROVED"
                                      ELSE "Egress DENIED (timeout or explicit)",
               domain |-> Lower(r.host), port |-> 0])
      /\ proxy' = [proxy EXCEPT ![h].pc = "la2_enter"]
      /\ UNCHANGED <<handler_frame, audit_log, gate_lock>>

\* The second log_attempt of _enforce, locked block; _enforce returns.
LogReviewLocked(h) ==
  LET r == proxy[h]
      final == IF r.approved THEN ALLOW ELSE DENY
  IN  /\ r.pc = "la2_locked"
      /\ log_attempt(r.host, r.port, r.method, <<final, "_after_review">>)
      /\ proxy' = [proxy EXCEPT ![h].final = final, ![h].pc = "done"]
      /\ UNCHANGED <<handler_frame, alert_history, gate_lock>>

\* fire called on its own: the locked block.
FireAppendLocked(h) ==
  /\ proxy[h].pc = "fire_locked"
  /\ fire("INFO", "monitor", [text |-> "Security monitor started", channels |-> 1])
  /\ proxy' = [proxy EXCEPT ![h].pc = "done"]
  /\ UNCHANGED <<handler_frame, audit_log, gate_lock>>

\* What the steps of an operator thread before its policy call leave alone.
operator_frame ==
  <<outside_egress, audit_log, unknown_action, policy_file, pending, requests,
    gate_history, gate_lock, gate_attached, alert_history, proxy>>

\* The operator calls approve, deny, add_permanent or get_pending once.
OperatorOps == {"approve", "deny", "add_permanent", "get_pending"}

OperatorCall(o, op, d, permanent) ==
  /\ human[o].pc = "idle"
  /\ human[o].op = None
  /\ human' = [human EXCEPT ![o] = [IdleOperator EXCEPT
                  !.op = op, !.domain = Lower(d), !.permanent = permanent,
                  !.pc = IF op = "get_pending" THEN "gp_enter" ELSE "policy_enter"]]
  /\ UNCHANGED <<operator_frame, allowed, session_approved, session_denied>>

\* `with self._lock` of session_approve, session_deny and add_permanent.
OperatorPolicyAcquire(o) ==
  /\ human[o].pc = "policy_enter"
  /\ PolicyLockFree
  /\ human' = [human EXCEPT ![o].pc = "policy_locked"]
  /\ UNCHANGED <<operator_frame, allowed, session_approved, session_denied>>

\* The locked block of the policy call of approve, deny and add_permanent.
OperatorPolicyLocked(o) ==
  LET r == human[o]
      permanent == r.op = "add_permanent" \/ (r.op = "approve" /\ r.permanent)
  IN  /\ r.pc = "policy_locked"
      /\ CASE permanent ->
                add_permanent(r.domain) /\ UNCHANGED <<session_approved, session_denied>>
           [] r.op = "approve" -> session_approve(r.domain) /\ UNCHANGED allowed
           [] OTHER -> session_deny(r.domain) /\ UNCHANGED allowed
      /\ human' = [human EXCEPT ![o].pc = IF permanent THEN "save" ELSE "signal"]
      /\ UNCHANGED operator_frame

\* _save takes the policy lock for its locked block.
OperatorSave(o) == PolicyLockFree /\ SaveSnapshot(o)

\* get_pending: the locked block.
GetPending(o) ==
  /\ human[o].pc = "gp_enter"
  /\ gate_lock = NoThread
  /\ human' = [human EXCEPT ![o].result = DOMAIN pending, ![o].pc = "idle"]
  /\ UNCHANGED <<operator_frame, allowed, session_approved, session_denied>>

\* The steps of a handler thread and of an operator thread that are up to
\* the thread itself once it has made its call.
HandlerRuns(h) ==
  \/ PolicyAcquire(h)
  \/ CheckDomainLocked(h)
  \/ LogAttemptLocked(h)
  \/ RequestApprovalEnter(h)
  \/ AlertAcquire(h)
  \/ NotifyAppend(h)
  \/ NotifyReturn(h)
  \/ WaitReturns(h)
  \/ WaitVerdict(h)
  \/ RequestApprovalPop(h)
  \/ DecisionAppend(h)
  \/ LogReviewLocked(h)
  \/ FireAppendLocked(h)

OperatorRuns(o) ==
  \/ OperatorPolicyAcquire(o)
  \/ OperatorPolicyLocked(o)
  \/ OperatorSave(o)
  \/ SaveWrite(o)
  \/ GateApproveSignal(o)
  \/ GateDenySignal(o)
  \/ GetPending(o)

\* Handler threads that serve one request for an unknown domain or fire one
\* alert each, and an operator thread with one call.
InitLocks == InitGate

NextLocks ==
  \/ \E h \in GateCallers, d \in GateDomains : EnforceCall(h, d)
  \/ \E h \in GateCallers : FireEnter(h)
  \/ \E h \in GateCallers : HandlerRuns(h)
  \/ \E o \in Operators, op \in OperatorOps, d \in GateDomains :
       OperatorCall(o, op, d, FALSE)
  \/ \E o \in Operators, d \in GateDomains : OperatorCall(o, "approve", d, TRUE)
  \/ \E o \in Operators : OperatorRuns(o)

\* A thread that can run does run: the scheduler gives every runnable
\* thread the processor, req.wait returns at its timeout at the latest, and
\* a lock that stays free is taken by a thread that waits for it.
SpecLocks ==
  /\ InitLocks
  /\ [][NextLocks]_vars
  /\ \A h \in GateCallers : WF_vars(HandlerRuns(h))
  /\ \A o \in Operators : WF_vars(OperatorRuns(o))

\* scan_for_secrets applied to each secret and to each of its encoded forms.
InitScan ==
  /\ InitPolicyAndGate
  /\ unknown_action = "pending"
  /\ ~gate_attached
  /\ audit_log = <<>>
  /\ alert_history = <<>>
  /\ alert_file = <<>>
  /\ clock = 0
  /\ socketio = FALSE
  /\ firing = [t \in AlertThreads |-> IdleFire]
  /\ monitor = IdleMonitor
  /\ \E content \in ScanContents : scanner = [pc |-> "called", content |-> content, findings |-> <<>>]

NextScan == ScanForSecrets

SpecScan == InitScan /\ [][NextScan]_vars

\* ------------------------------------------------------------------------
\* Properties
\* ------------------------------------------------------------------------

\* C1: in every reachable policy state, check_domain(d) is the precedence
\* function blocked > sessionDenied > allowed > sessionApproved > unknownAction,
\* for every domain d and for the result of every check_domain call.
C1_Precedence ==
  LET Matches(n, patterns) == \E p \in SeqToSet(patterns) : _match(n, Lower(p))
      Reference(d) ==
        LET n == Strip(Lower(d))
            isBlocked == Matches(n, blocked)
            isAllowed == Matches(n, allowed)
        IN  CASE isBlocked -> DENY
              [] ~isBlocked /\ n \in session_denied -> DENY
              [] ~isBlocked /\ n \notin session_denied /\ isAllowed -> ALLOW
              [] ~isBlocked /\ n \notin session_denied /\ ~isAllowed
                   /\ n \in session_approved -> ALLOW
              [] OTHER -> IF unknown_action = "deny" THEN DENY ELSE PENDING
  IN  /\ \A d \in PolicyDomains \cup PolicyPatterns : check_domain(d) = Reference(d)
      /\ \A o \in Operators :
           human[o].op = "check_domain" => human[o].result = Reference(human[o].domain)

\* C1 witness: a check of a domain that is session-denied and also matches an
\* allowlist pattern has returned DENY.
C1_Witness ==
  \E o \in Operators :
    /\ human[o].op = "check_domain"
    /\ human[o].result = DENY
    /\ Lower(human[o].domain) \in session_denied
    /\ LoopMatches(Lower(human[o].domain), allowed)
    /\ ~LoopMatches(Lower(human[o].domain), blocked)

\* C2: blocklist supremacy: a domain matching a blocked pattern (built in or
\* from a "!" line) is denied in every reachable state, whatever the
\* allowlist and the session sets hold.
C2_BlocklistSupremacy ==
  LET IsBlocked(d) == \E i \in 1..Len(blocked) : _match(Strip(Lower(d)), Lower(blocked[i]))
  IN  /\ \A d \in PolicyDomains \cup PolicyPatterns : IsBlocked(d) => check_domain(d) = DENY
      /\ \A o \in Operators :
           (human[o].op = "check_domain" /\ IsBlocked(human[o].domain))
             => human[o].result = DENY

\* C2 witness: a built-in-blocked domain has been checked and denied while it
\* is on the allowlist and session-approved, and the domain blocked by the "!"
\* line of the file is session-approved and denied as well.
C2_Witness ==
  \E o \in Operators :
    /\ human[o].op = "check_domain"
    /\ human[o].domain = D_x
    /\ human[o].result = DENY
    /\ {D_b, D_x} \subseteq session_approved
    /\ D_x \in SeqToSet(allowed)
    /\ check_domain(D_b) = DENY

\* C3: decision monotonicity: when the operator's latest policy call is
\* session_deny(d) or gate.deny(d) (so no session_approve(d) has followed it),
\* every check_domain of d that a proxy thread makes returns DENY, whatever
\* the spelling of d's letters and whatever else is interleaved; and a domain
\* leaves the session denials only in a step that session-approves it.
C3_DenyPersists ==
  [][ /\ \A d \in session_denied : d \notin session_denied' => d \in session_approved'
      /\ \A h \in ProxyThreads, o \in Operators :
           (/\ human[o].op \in {"session_deny", "deny"}
            /\ Lower(human[o].domain) = Lower(proxy[h].host)
            /\ proxy[h].pc = "check"
            /\ proxy'[h].pc = "log")
             => proxy'[h].decision = DENY ]_vars

\* C3 witness: after session_deny("A.io"), a proxy thread's check of that
\* domain, which no pattern blocks and whose default would be PENDING, has
\* returned DENY.
C3_Witness ==
  \E h \in ProxyThreads, o \in Operators :
    /\ human[o].op = "session_deny"
    /\ human[o].domain = D_A
    /\ proxy[h].host = D_A
    /\ proxy[h].pc = "log"
    /\ proxy[h].decision = DENY
    /\ unknown_action = "pending"
    /\ ~LoopMatches(Lower(proxy[h].host), blocked)

\* The callers that have left PendingRequest.wait with their verdict.
Released(h) == proxy[h].req # NoReq /\ proxy[h].pc \in {"ra_pop", "ra_log", "log_review", "respond", "done"}

\* C4: coalescing: the pending map holds one PendingRequest per domain, and
\* with a single approve(d) or deny(d) of the operator all callers that
\* waited on the request it signalled return the same verdict.
C4_Coalescing ==
  /\ \A d \in DOMAIN pending : requests[pending[d]].domain = d
  /\ \A d1, d2 \in DOMAIN pending : pending[d1] = pending[d2] => d1 = d2
  /\ \A h1, h2 \in GateCallers :
       (/\ Released(h1) /\ Released(h2)
        /\ proxy[h1].req = proxy[h2].req
        /\ requests[proxy[h1].req].event)
         => proxy[h2].approved = proxy[h1].approved

\* C5: all callers that waited on the same PendingRequest and have been
\* released hold the same verdict.
C5_SameVerdict ==
  \A h1, h2 \in GateCallers :
    (Released(h1) /\ Released(h2) /\ proxy[h1].req = proxy[h2].req)
      => proxy[h1].approved = proxy[h2].approved

\* C6: signalling twice is a no-op: once a PendingRequest is signalled, no
\* step changes its verdict while a caller is still to read it.
C6_SecondSignalNoOp ==
  [][ \A id \in DOMAIN requests :
        (/\ requests[id].event
         /\ \E h \in GateCallers : proxy[h].req = id /\ proxy[h].pc \in {"wait", "read"})
          => requests'[id].approved = requests[id].approved ]_vars

\* C7: timeout-as-deny: a caller whose wait ended by the timeout, before any
\* approve or deny was issued, returns false, and once it has returned the
\* pending map does not hold the request it waited on.
C7_TimeoutAsDeny ==
  \A h \in GateCallers :
    /\ (Released(h) /\ proxy[h].timed_out) => ~proxy[h].approved
    /\ (proxy[h].pc = "done" /\ Lower(proxy[h].host) \in DOMAIN pending)
         => pending[Lower(proxy[h].host)] # proxy[h].req

\* The policy holds an approval of d: on the session list or on the allowlist.
PolicyHasApproval(d) == d \in session_approved \/ d \in SeqToSet(allowed)

C9_NoCallUnderLock ==
  /\ \A h \in GateCallers : proxy[h].pc \in {"ra_notify", "ra_log"} => gate_lock # h
  /\ \A o \in Operators : human[o].pc \in {"save", "write"} => gate_lock = NoThread

\* C10: an upstream is contacted only for a request whose _enforce returned
\* ALLOW, which it does only when the policy allowed the host or the gate
\* approved a PENDING one; every request whose final decision is not ALLOW
\* ends with 403 and without an upstream connection.
C10_UpstreamOnlyIfAllowed ==
  \A h \in ProxyThreads :
    LET r == proxy[h]
    IN  /\ (r.upstream \/ r.pc \in {"forward", "secrets_log", "secrets_alert"})
             => r.final = ALLOW
        /\ r.final = ALLOW
             => \/ r.decision = ALLOW
                \/ r.decision = PENDING /\ gate_attached /\ r.approved
        /\ (r.pc = "done" /\ r.final # ALLOW) => (r.status = 403 /\ ~r.upstream)
        /\ (r.pc \in {"respond", "done"} /\ r.decision \in {DENY, PENDING}
              /\ ~(gate_attached /\ r.approved))
             => r.final # ALLOW

\* C10 witness: a request for an unknown host with no gate attached (final
\* decision PENDING) has ended with 403 and no upstream connection.
C10_Witness ==
  \E h \in ProxyThreads :
    /\ proxy[h].pc = "done"
    /\ proxy[h].status = 403
    /\ ~proxy[h].upstream
    /\ proxy[h].final = PENDING
    /\ ~gate_attached

\* ------------------------------------------------------------------------
\* C11: the audit entries of _enforce
\* ------------------------------------------------------------------------

\* The handler threads whose _enforce has appended its first entry.
PastEnforceLog(h) == proxy[h].pc \notin {"idle", "check", "log"}

\* The handler threads whose _enforce has appended its second entry.
PastEnforceLogReview(h) ==
  /\ proxy[h].decision = PENDING
  /\ gate_attached = TRUE
  /\ proxy[h].pc \in {"respond", "forward", "secrets_log", "secrets_alert", "done"}

\* The handler threads whose _handle_http has appended "blocked_secrets".
PastSecretsLog(h) ==
  \/ proxy[h].pc = "secrets_alert"
  \/ proxy[h].pc = "done" /\ proxy[h].final = ALLOW /\ proxy[h].status = 403

\* The number of audit entries request h has appended so far.
EntriesOf(h) ==
  (IF PastEnforceLog(h) THEN 1 ELSE 0) + (IF PastEnforceLogReview(h) THEN 1 ELSE 0)
    + (IF PastSecretsLog(h) THEN 1 ELSE 0)

RECURSIVE SumEntries(_)
SumEntries(S) ==
  IF S = {} THEN 0
  ELSE LET h == CHOOSE x \in S : TRUE IN EntriesOf(h) + SumEntries(S \ {h})

\* The log holds exactly the entries the requests have appended: one per
\* request past the first log_attempt, a second one per reviewed request
\* (and the "blocked_secrets" ones of _handle_http); what _enforce returns is
\* the verdict of the review, or the initial decision when there was none.
C11_Counts ==
  /\ Len(audit_log) = SumEntries(ProxyThreads)
  /\ \A h \in ProxyThreads :
        PastEnforceLogReview(h) =>
          proxy[h].final = IF proxy[h].approved THEN ALLOW ELSE DENY
  /\ \A h \in ProxyThreads :
        (PastEnforceLog(h) /\ ~(proxy[h].decision = PENDING /\ gate_attached)) =>
          proxy[h].final = proxy[h].decision

\* One step of handler h seen from the audit log: leaving "log" appends the
\* entry of the initial decision; leaving "log_review" happens only for a
\* PENDING decision with a gate and appends the review entry; _enforce is
\* left (pc "respond") only through one of the two.
C11_Step(h) ==
  LET r == proxy[h]
      q == proxy'[h]
      entry(decision) == [domain |-> r.host, port |-> r.port, method |-> r.method,
                          decision |-> decision]
      LeavesLog ==
        /\ audit_log' = Append(audit_log, entry(r.decision))
        /\ q.pc = IF r.decision = PENDING /\ gate_attached THEN "ra_enter" ELSE "respond"
      LeavesLogReview ==
        /\ r.decision = PENDING
        /\ gate_attached
        /\ Len(audit_log) > 0
        /\ audit_log' = Append(audit_log,
                               entry(IF r.approved THEN "allow_after_review"
                                                   ELSE "deny_after_review"))
        /\ q.final = (IF r.approved THEN ALLOW ELSE DENY)
        /\ q.pc = "respond"
  IN  /\ (r.pc = "log" /\ q.pc # "log") => LeavesLog
      /\ (r.pc = "log_review" /\ q.pc # "log_review") => LeavesLogReview
      /\ (q.pc = "respond" /\ r.pc # "respond") => r.pc \in {"log", "log_review"}
      /\ (q.pc = "log_review" /\ r.pc # "log_review") => r.pc = "ra_log"

C12_AuditOrderIsCheckOrder ==
  \A i, j \in DOMAIN audit_log :
    (i < j /\ Lower(audit_log[i].domain) = Lower(audit_log[j].domain))
      => ~(audit_log[i].decision = DENY /\ audit_log[j].decision = PENDING)

\* C13: the audit log never holds more than 5000 entries; a log_attempt below
\* the cap appends one entry, and the log_attempt on a log of 5000 entries
\* leaves exactly the last 2499 of them, in their order, followed by the new
\* entry.
C13_AuditBound ==
  /\ [](Len(audit_log) <= AuditCap)
  /\ [][audit_log' # audit_log =>
          IF Len(audit_log) < AuditCap
            THEN /\ Len(audit_log') = Len(audit_log) + 1
                 /\ SubSeq(audit_log', 1, Len(audit_log)) = audit_log
                 /\ audit_log'[Len(audit_log')].domain \in Hosts
            ELSE /\ Len(audit_log') = AuditKeep
                 /\ \A k \in 1..(AuditKeep - 1) :
                       audit_log'[k] = audit_log[AuditCap - AuditKeep + 1 + k]
                 /\ audit_log'[AuditKeep].domain \in Hosts]_vars

\* C13 witness: a log_attempt has trimmed a full log: 2500 entries are left,
\* the oldest one is entry 2502 of the full log and the newest one is the
\* request's own.
C13_Witness ==
  /\ Len(audit_log) = AuditKeep
  /\ audit_log[1] = AuditPrefill(AuditCap)[AuditCap - AuditKeep + 2]
  /\ audit_log[AuditKeep].domain \in Hosts
  /\ \E h \in AuditThreads : proxy[h].pc \in {"respond", "done"}

\* ------------------------------------------------------------------------
\* C14, C15: bound and order of the alert history
\* ------------------------------------------------------------------------

\* C14: after construction (with a reload of alerts.log) and after any
\* number of fire calls, the in-memory history holds at most 1000 alerts.
C14_HistoryBound == Len(alert_history) <= AlertCap

\* C15: the history is weakly monotonic in timestamp: an alert never stands
\* before one with a smaller timestamp.
C15_TimestampMonotonic ==
  \A i, j \in DOMAIN alert_history :
    i < j => alert_history[i].timestamp <= alert_history[j].timestamp

\* ------------------------------------------------------------------------
\* C16, C18: the sinks of fire and the notification payload
\* ------------------------------------------------------------------------

\* C16: the failure of a sink, of whatever error kind, is swallowed inside
\* fire: fire does not raise, the alert is in the history, and a call that
\* has ended has attempted every sink it applies to.
C16_SinkFailureSwallowed ==
  \A t \in FireCallers :
    /\ firing[t].pc # "raised"
    /\ firing[t].pc = "done" =>
          /\ {"log", "terminal"} \subseteq firing[t].attempted
          /\ socketio => "websocket" \in firing[t].attempted
          /\ firing[t].alert.severity = "CRITICAL" => "toast" \in firing[t].attempted
          /\ \E i \in DOMAIN alert_history : alert_history[i] = firing[t].alert

\* C18: the title and the body handed to the notification command hold only
\* characters of [A-Za-z0-9 .,!?:/()-], are at most 200 characters long, and
\* sanitising them again returns them unchanged.
C18_SanitiserSafety ==
  \A t \in FireCallers :
    "toast" \in firing[t].attempted =>
      \A s \in {firing[t].toast.title, firing[t].toast.message} :
        /\ \A i \in DOMAIN s : s[i] \in ToastAllowed
        /\ Len(s) <= 200
        /\ _sanitize_for_toast(s) = s

\* C18 witness: a CRITICAL alert whose message is longer than 200 characters
\* and holds quotes reached the notification with a body of 200 characters.
C18_Witness ==
  \E t \in FireCallers :
    /\ "toast" \in firing[t].attempted
    /\ Len(firing[t].alert.message) > 200
    /\ \E i \in DOMAIN firing[t].alert.message : firing[t].alert.message[i] = "'"
    /\ Len(firing[t].toast.message) = 200
    /\ firing[t].toast.launched

\* ------------------------------------------------------------------------
\* C17: a plaintext request carrying secrets
\* ------------------------------------------------------------------------

\* C17: a plaintext HTTP request to an allowed host whose scan found secrets
\* is not forwarded, gets the audit entry "blocked_secrets" after its "allow"
\* entry, a CRITICAL alert naming the host, and 403, with or without a gate
\* attached to the proxy.
C17_SecretsBlocked ==
  \A h \in ProxyThreads :
    LET r == proxy[h]
    IN  (r.pc = "done" /\ r.method # "CONNECT" /\ r.decision = ALLOW /\ PastSecretsLog(h))
          => /\ ~r.upstream
             /\ r.status = 403
             /\ \E i, j \in DOMAIN audit_log :
                   /\ i < j
                   /\ audit_log[i].domain = r.host /\ audit_log[i].decision = ALLOW
                   /\ audit_log[j].domain = r.host
                   /\ audit_log[j].decision = "blocked_secrets"
             /\ \E k \in DOMAIN alert_history :
                   /\ alert_history[k].severity = "CRITICAL"
                   /\ alert_history[k].message.domain = r.host

\* ------------------------------------------------------------------------
\* C20: the watcher threads of the monitor
\* ------------------------------------------------------------------------

\* C20: a start while the monitor is started creates no further watcher
\* threads: at most one watcher per channel is alive.
C20_OneWatcherPerChannel ==
  \A c \in Channels :
    Cardinality({i \in DOMAIN monitor.spawned :
                   monitor.spawned[i].channel = c /\ monitor.spawned[i].alive}) <= 1

\* C19: for every secret matching a Layer-1 pattern, the shortest ones
\* included, scan_for_secrets of its base64 form, of its hex form, of its
\* percent-encoded form and of its dot-separated form returns findings.
C19_NoFalseNegative ==
  (scanner.pc = "done" /\ scanner.content \in EncodedContents) => scanner.findings # <<>>

\* ------------------------------------------------------------------------
\* C21..C24, C29, C30: the watcher methods
\* ------------------------------------------------------------------------

\* The watcher threads, of these channels, that have not ended.
Alive(channels) ==
  {i \in DOMAIN monitor.spawned :
     monitor.spawned[i].alive /\ monitor.spawned[i].channel \in channels}

\* C21: after stop is called, every watcher thread, polling or streaming,
\* ends in the end, whether or not the log or event stream delivers
\* another item.
C21_StopEndsWatchers ==
  (monitor.starts > 0 /\ monitor.stop_event) ~> (Alive(Channels) = {})

\* After stop is called, the polling watchers end.
StopEndsPollingWatchers ==
  (monitor.starts > 0 /\ monitor.stop_event) ~> (Alive(PollingChannels) = {})

\* stop has returned and a streaming watcher still waits for an item.
StreamingWatcherLeft ==
  /\ monitor.stop_event
  /\ ~monitor.stopping
  /\ monitor.threads = <<>>
  /\ Alive(PollingChannels) = {}
  /\ Alive({"logs", "events"}) # {}

\* C22: for a suspicious process that get_top lists, the monitor has fired
\* CRITICAL "processes" when it calls pause, it calls pause once for that
\* detection, not again at a later poll for a process that has been listed
\* ever since and not on a container that is paused already, and CRITICAL
\* "auto-pause" is the alert that follows a pause that succeeded.
C22_PauseOncePerDetection ==
  /\ \A i \in Alive({"processes"}) :
       LET last == alert_history[Len(alert_history)]
       IN  /\ monitor.spawned[i].pc \in {"auto_pause", "frozen_fire"} =>
                 alert_history # <<>> /\ last.severity = "CRITICAL"
                                      /\ last.source = "processes"
           /\ (/\ monitor.spawned[i].pc = "each"
               /\ monitor.dm.pause_calls = 1
               /\ monitor.dm.pause_returned = 1) =>
                 last.severity = "CRITICAL" /\ last.source = "auto-pause"
  /\ \A call \in {monitor.dm.last_pause[j] : j \in DOMAIN monitor.dm.last_pause} :
       ~call.again /\ call.status = "running"

\* The alerts of this severity and source in the history.
Fired(severity, source) ==
  Len(SelectSeq(alert_history, LAMBDA a : a.severity = severity /\ a.source = source))

\* The watcher threads that are at this statement.
AtPc(pc) == {i \in Alive(Channels) : monitor.spawned[i].pc = pc}

\* C23: pause is called only with auto_pause_on_critical on; each pause that
\* returned is followed by one CRITICAL "auto-pause" alert and each pause that
\* raised by one WARNING "auto-pause" alert, and no more; the watcher that
\* called _auto_pause keeps running.
C23_AutoPauseAlerts ==
  /\ ~monitor.profile.auto_pause_on_critical => monitor.dm.pause_calls = 0
  /\ Fired("CRITICAL", "auto-pause") + Cardinality(AtPc("frozen_fire"))
       = monitor.dm.pause_returned
  /\ Fired("WARNING", "auto-pause") + Cardinality(AtPc("failed_fire"))
       + monitor.dm.pause_returned = monitor.dm.pause_calls
  /\ \A i \in DOMAIN monitor.spawned :
       monitor.spawned[i].channel \in {"processes", "health"} =>
         monitor.spawned[i].pc # "raised"

\* C24: a CPU warning fires at a sample only when _cpu_high_since is set,
\* cpu_sustain_seconds or more have passed since then and no sample since
\* then was at or below the threshold; a sample at or below the threshold
\* resets _cpu_high_since; two consecutive CPU warnings are
\* cpu_sustain_seconds or more apart.
C24_SustainedCpu ==
  LET since == monitor.cpu_high_since
      low_at == monitor.cpu_log.low_at
      gap == monitor.cpu_log.gap
  IN  /\ AtPc("cpu_fire") # {} =>
           since # <<>> /\ monitor.now >= since[1] + monitor.cpu_sustain_seconds
      /\ (since # <<>> /\ low_at # <<>>) => low_at[1] < since[1]
      /\ gap # <<>> => gap[1] >= monitor.cpu_sustain_seconds

\* C29: an unexpected exception during a poll or a streamed item does not
\* end a watcher: as long as stop is not signalled, every watcher thread
\* that was started is alive.
C29_WatcherSurvivesException ==
  ~monitor.stop_event =>
    \A i \in DOMAIN monitor.spawned : monitor.spawned[i].alive

\* The same for the four polling watchers.
PollingWatcherSurvivesException ==
  ~monitor.stop_event =>
    \A i \in DOMAIN monitor.spawned :
      monitor.spawned[i].channel \in PollingChannels => monitor.spawned[i].alive

\* C30: the health watcher raises CRITICAL "health" (and calls _auto_pause)
\* at a check only when that check and the one before it returned
\* "unhealthy", the last two values that get_health returned; a value other
\* than "unhealthy" resets _consecutive_unhealthy to 0; the counter is never
\* negative.
C30_TwoConsecutiveUnhealthy ==
  LET log == monitor.health_log
  IN  /\ \A i \in AtPc("critical_fire") \cup AtPc("auto_pause") :
           monitor.spawned[i].channel = "health" =>
             /\ log = <<"unhealthy", "unhealthy">>
             /\ monitor.consecutive_unhealthy >= 2
      /\ (log # <<>> /\ log[Len(log)] # "unhealthy") => monitor.consecutive_unhealthy = 0
      /\ monitor.consecutive_unhealthy \in Nat

\* The health watcher is about to fire CRITICAL "health" after "unhealthy"
\* twice in a row, at its fourth check or a later one.
C30_Witness ==
  /\ \E i \in AtPc("critical_fire") : monitor.spawned[i].channel = "health"
  /\ monitor.consecutive_unhealthy = 2
  /\ monitor.health_log = <<"unhealthy", "unhealthy">>
  /\ monitor.now >= 190

\* ------------------------------------------------------------------------
\* C25..C28: the pending map, the policy file and approvals
\* ------------------------------------------------------------------------

\* C25: a PendingRequest with a caller still blocked in its wait, and not
\* decided, is the one that the pending map holds for its domain; so no
\* caller that returns late removes a request that others wait on.
C25_PendingOwnership ==
  \A h \in GateCallers :
    (proxy[h].pc = "wait" /\ ~requests[proxy[h].req].event) =>
      /\ Lower(proxy[h].host) \in DOMAIN pending
      /\ pending[Lower(proxy[h].host)] = proxy[h].req

\* A thread is inside add_permanent or remove_permanent, _save included.
Saving(o) == human[o].pc \in {"save", "write"}

\* C26: once every call of add_permanent and remove_permanent has returned,
\* the policy file is what _save writes for the allowlist in memory.
C26_FileAgreesWithMemory ==
  (/\ \A o \in DOMAIN human : ~Saving(o)
   /\ \E o \in DOMAIN human : human[o].op \in {"add_permanent", "remove_permanent"})
    => policy_file = SaveLines(allowed, blocked)

\* The patterns of a blocked list that are not built in.
NonDefault(patterns) ==
  SelectSeq(patterns, LAMBDA p : p \notin SeqToSet(DEFAULT_BLOCKLIST))

\* C27: after add_permanent or remove_permanent has rewritten the file, an
\* engine loaded from the file has the same allowlist in the same order and
\* the same blocked patterns that are not built in; the allowlist holds no
\* entry twice.
C27_SaveReloadRoundTrip ==
  \A o \in DOMAIN human :
    (human[o].op \in {"add_permanent", "remove_permanent"} /\ ~Saving(o)) =>
      LET reloaded == LoadLines(policy_file, <<>>, DEFAULT_BLOCKLIST)
      IN  /\ reloaded.allowed = allowed
          /\ NonDefault(reloaded.blocked) = NonDefault(blocked)
          /\ Cardinality(SeqToSet(allowed)) = Len(allowed)

\* C28: after approve(d) or approve(d, permanent=True) has returned and
\* before any other call, check_domain(d) is ALLOW for a d that matches no
\* blocked pattern, whatever was decided on d before.
C28_ApprovedIsAllowed ==
  \A o \in DOMAIN human :
    (/\ human[o].op = "approve"
     /\ human[o].pc = "idle"
     /\ ~LoopMatches(Strip(Lower(human[o].domain)), blocked))
      => check_domain(human[o].domain) = ALLOW

\* C31: while memory_percent stays above the memory threshold, the first
\* sample above it fires a memory warning in the same round, and two
\* consecutive memory warnings are MEMORY_ALERT_COOLDOWN seconds or more
\* apart.
C31_MemoryCooldown ==
  LET log == monitor.memory_log
  IN  /\ (log.over_at # <<>> /\ log.fired_at = <<>>) => AtPc("memory_fire") # {}
      /\ log.gap # <<>> => log.gap[1] >= MEMORY_ALERT_COOLDOWN

\* C32: with the paused flag set, a polling watcher that begins a round goes
\* straight to its wait: the round calls nothing on the container, fires no
\* alert and pauses nothing. The watchers of the log and event streams take
\* the next item and fire whether the flag is set or not. Clearing the
\* flag creates no thread, and the next round of a polling watcher polls.
PausedRoundIsIdle ==
  \A i \in DOMAIN monitor.spawned :
    LET thread == monitor.spawned[i]
    IN  (/\ thread.alive /\ thread.pc = "loop"
         /\ thread.channel \in PollingChannels
         /\ ~monitor.stop_event
         /\ monitor'.spawned[i] # thread) =>
          IF monitor.paused
            THEN /\ monitor'.spawned[i].pc = "sleep"
                 /\ monitor'.spawned[i].wake = monitor.now + SleepSeconds(thread.channel)
                 /\ alert_history' = alert_history
                 /\ monitor'.dm = monitor.dm
            ELSE monitor'.spawned[i].pc = "poll"

ResumeCreatesNoThread ==
  (monitor.paused /\ ~monitor'.paused /\ monitor'.starts = monitor.starts) =>
    /\ monitor'.spawned = monitor.spawned
    /\ monitor'.threads = monitor.threads

StreamsGoOn ==
  \A i \in DOMAIN monitor.spawned :
    /\ (Watching(i, "logs", "loop") /\ ~monitor.stop_event) =>
         ENABLED (LogsNext(i, "line", {1}) /\ monitor'.spawned[i].pc = "logs_fire")
    /\ Watching(i, "logs", "logs_fire") =>
         ENABLED (LogsFire(i, FALSE) /\ Len(alert_history') = Len(alert_history) + 1)
    /\ (Watching(i, "events", "loop") /\ ~monitor.stop_event) =>
         ENABLED (/\ EventsNext(i, "event", [Action |-> "die"])
                  /\ monitor'.spawned[i].pc = "events_fire")
    /\ Watching(i, "events", "events_fire") =>
         ENABLED (EventsFire(i, FALSE) /\ Len(alert_history') = Len(alert_history) + 1)

C32_PausedPolling ==
  /\ [][PausedRoundIsIdle /\ ResumeCreatesNoThread]_vars
  /\ []StreamsGoOn

\* The flag is set, the stats watcher is in its wait without having fired
\* for the memory above the threshold, and the events watcher is about to
\* fire for an event.
C32_Witness ==
  /\ monitor.paused
  /\ \E i \in DOMAIN monitor.spawned : Watching(i, "stats", "sleep")
  /\ Fired("WARNING", "stats") = 0
  /\ \E j \in DOMAIN monitor.spawned : Watching(j, "events", "events_fire")

\* C33: a start of an idle monitor creates one thread for each watcher the
\* profile enables and no other: stats iff resource_limits, processes iff
\* process_watchdog, network iff network_auditor, logs iff log_scanner,
\* health and events iff one of the four is on. With none on it fires no
\* alert; otherwise it fires one INFO "monitor" alert whose channel count
\* is the number of threads created.
Enabled(profile) ==
  LET optional == {c \in {"stats", "processes", "network", "logs"} :
                     \/ c = "stats" /\ profile.resource_limits
                     \/ c = "processes" /\ profile.process_watchdog
                     \/ c = "network" /\ profile.network_auditor
                     \/ c = "logs" /\ profile.log_scanner}
  IN  IF optional = {} THEN {} ELSE optional \cup {"health", "events"}

StartSelects ==
  (monitor.threads = <<>> /\ monitor'.starts = monitor.starts + 1) =>
    LET before == Len(monitor.spawned)
        created == (before + 1)..Len(monitor'.spawned)
        expected == Enabled(monitor.profile)
    IN  /\ {monitor'.spawned[i].channel : i \in created} = expected
        /\ Cardinality(created) = Cardinality(expected)
        /\ \A i \in created : monitor'.spawned[i].alive
        /\ \A i \in 1..before : monitor'.spawned[i] = monitor.spawned[i]
        /\ Len(monitor'.threads) = Cardinality(created)
        /\ alert_history' =
             IF expected = {} THEN alert_history
             ELSE Append(alert_history,
                         [severity |-> "INFO", source |-> "monitor",
                          message |-> [text |-> "Security monitor started",
                                       channels |-> Cardinality(created)]])

FiredText(severity, text) ==
  Len(SelectSeq(alert_history,
                LAMBDA a : /\ a.severity = severity /\ a.source = "egress"
                           /\ a.message.text = text))

\* The callers that have returned this verdict from request_approval.
Returned(approved) ==
  {h \in GateCallers : proxy[h].pc = "done" /\ proxy[h].approved = approved}

NetworkAlerts(remote) ==
  Len(SelectSeq(alert_history,
                LAMBDA a : a.source = "network" /\ a.message.remote = remote))

HandlerAcquires ==
  {"cd_enter", "la_enter", "la2_enter", "ra_enter", "ra_pop",
   "ra_notify", "ra_log", "fire_enter"}

OperatorAcquires == {"policy_enter", "save", "signal", "gp_enter"}

\* Each lock has one holder at most, and a thread in req.wait holds none.
LocksExclude ==
  /\ Cardinality(PolicyLockHandlers) + Cardinality(PolicyLockOperators) <= 1
  /\ Cardinality(AlertLockHolders) <= 1
  /\ \A h \in GateCallers :
       proxy[h].pc \in {"wait", "read"} =>
         gate_lock # h /\ h \notin PolicyLockHandlers \cup AlertLockHolders

\* C36: no thread waits forever for the gate lock, the policy lock or the
\* alert lock: a thread that asks for one gets it and goes on to the end of
\* its call, under every interleaving of request_approval, approve, deny,
\* get_pending, check_domain, log_attempt, add_permanent and fire; the wait
\* on a PendingRequest, which ends at its timeout at the latest, is taken
\* with no lock held.
C36_NoLockDeadlock ==
  /\ []LocksExclude
  /\ \A h \in GateCallers :
       (proxy[h].pc \in HandlerAcquires) ~> (proxy[h].pc = "done")
  /\ \A o \in Operators :
       (human[o].pc \in OperatorAcquires) ~> (human[o].pc = "idle")

\* A handler holds the gate lock and waits for the alert lock that the
\* other handler holds, while the operator waits for the gate lock.
C36_Witness ==
  /\ \E h1, h2 \in GateCallers :
       /\ proxy[h1].pc = "ra_notify" /\ gate_lock = h1
       /\ h2 \in AlertLockHolders
  /\ \E o \in Operators : human[o].pc \in {"signal", "gp_enter"}

\* The statements of request_approval.
InRequestApproval == {"ra_enter", "ra_notify", "wait", "read", "ra_pop", "ra_log"}

\* A request_approval for d has ended by its timeout and returned False.
TimedOutCall(h, d) ==
  /\ Lower(proxy[h].host) = d
  /\ proxy[h].timed_out /\ ~proxy[h].approved
  /\ proxy[h].pc \in {"log_review", "respond", "done"}

\* C37: no step of request_approval changes the allowlist, the session
\* approvals or the session denials (the blocklist has no writer). After a
\* call for d has ended by its timeout, with no decision of the operator, the
\* next check of d is PENDING again and its request_approval creates a new
\* PendingRequest; after deny(d) the check of d is DENY and the handler
\* does not enter the gate.
C37_Step ==
  \A h \in GateCallers :
    LET r == proxy[h]
        d == Lower(r.host)
        last == Len(requests')
    IN  /\ (r.pc \in InRequestApproval /\ proxy'[h] # r) =>
             /\ allowed' = allowed
             /\ session_approved' = session_approved
             /\ session_denied' = session_denied
        /\ (/\ r.pc = "check" /\ proxy'[h].pc = "log"
            /\ \E h2 \in GateCallers \ {h} : TimedOutCall(h2, d)
            /\ \A o \in Operators : human[o].op = None) =>
             proxy'[h].decision = PENDING
        /\ (/\ r.pc = "ra_enter" /\ proxy'[h].pc # "ra_enter"
            /\ \E h2 \in GateCallers \ {h} : TimedOutCall(h2, d)
            /\ \A h2 \in GateCallers \ {h} : proxy[h2].pc \notin InRequestApproval) =>
             /\ last = Len(requests) + 1
             /\ requests'[last] =
                  [domain |-> d, port |-> r.port, approved |-> None, event |-> FALSE]
             /\ pending'[d] = last
             /\ proxy'[h].req = last
        /\ (/\ r.pc = "check" /\ proxy'[h].pc = "log"
            /\ \E o \in Operators : human[o].op = "deny" /\ human[o].domain = d) =>
             proxy'[h].decision = DENY
        /\ (r.pc = "log" /\ r.decision = DENY /\ proxy'[h] # r) =>
             /\ proxy'[h].pc = "respond"
             /\ requests' = requests
             /\ pending' = pending

C37_TimeoutLeavesPolicy == [][C37_Step]_vars

\* One request for A.io has ended by its timeout; the next one, checked as
\* PENDING, waits on a second PendingRequest; the operator made no call.
C37_Witness ==
  /\ \A o \in Operators : human[o].op = None
  /\ \E h1, h2 \in GateCallers :
       /\ TimedOutCall(h1, Lower(D_A))
       /\ proxy[h2].host = D_A
       /\ proxy[h2].decision = PENDING
       /\ proxy[h2].pc = "wait"
       /\ proxy[h2].req = 2
       /\ proxy[h1].req = 1

\* The call an operator thread makes in this step, if it makes one.
Calls(o, ops) ==
  /\ human[o].pc = "idle"
  /\ human'[o] # human[o]
  /\ human'[o].op \in ops
  /\ ~human'[o].permanent

\* C38: no domain is in both session sets. A session_approve(d) or a
\* gate approve(d) for the session puts d, in lower case, in the session
\* approvals and takes it out of the session denials; session_deny(d) and
\* the gate's deny(d) do the reverse; no other step changes either set, so
\* the latest of these calls for d decides which set holds d.
C38_Step ==
  /\ \A o \in Savers :
       LET d == Lower(human'[o].domain)
       IN  /\ Calls(o, {"session_approve", "approve"}) =>
                /\ session_approved' = session_approved \cup {d}
                /\ session_denied' = session_denied \ {d}
           /\ Calls(o, {"session_deny", "deny"}) =>
                /\ session_denied' = session_denied \cup {d}
                /\ session_approved' = session_approved \ {d}
  /\ (session_approved' # session_approved \/ session_denied' # session_denied) =>
       \E o \in Savers :
         LET d == Lower(human'[o].domain)
         IN  /\ human[o].pc = "idle"
             /\ ~human'[o].permanent
             /\ \/ /\ human'[o].op \in {"session_approve", "approve"}
                   /\ session_approved' = session_approved \cup {d}
                   /\ session_denied' = session_denied \ {d}
                \/ /\ human'[o].op \in {"session_deny", "deny"}
                   /\ session_denied' = session_denied \cup {d}
                   /\ session_approved' = session_approved \ {d}

C38_SessionSetsDisjoint ==
  /\ [](session_approved \cap session_denied = {})
  /\ [][C38_Step]_vars

\* One operator approved A.io through the gate, the other then denied it on
\* the policy: a.io is among the session denials only, next to an approved
\* domain.
C38_Witness ==
  /\ \E o1, o2 \in Savers :
       /\ human[o1].op = "approve" /\ human[o1].domain = Lower(D_A)
       /\ human[o2].op = "session_deny" /\ human[o2].domain = D_A
  /\ Lower(D_A) \in session_denied
  /\ Lower(D_A) \notin session_approved
  /\ session_approved # {}

====
